---------------------------- MODULE Spec2Model ----------------------------
(***************************************************************************)
(* A model of the mcoptions Monte Carlo pricing library.                   *)
(*                                                                         *)
(*  - the xoshiro256** generator (seed, next, uniform, normal, jump) on    *)
(*    64-bit words, a word being a tuple of 16 hexadecimal digits, most    *)
(*    significant first;                                                   *)
(*  - the simulation context and its setters;                              *)
(*  - the European pricer: inline for one thread, and the fork/join        *)
(*    dispatcher of thread_pool.c with its workers interleaved step by     *)
(*    step for more than one thread;                                       *)
(*  - the argument checks, allocations and releases of the other Monte     *)
(*    Carlo pricers.                                                       *)
(*                                                                         *)
(* Floating-point values are not computed.  A uniform draw is the 53-bit   *)
(* integer it is scaled from, a normal draw is the pair of uniforms it is  *)
(* made of, a payoff is the draw and the sign it was evaluated at, and a   *)
(* floating-point sum is the sequence of its addends in the order they     *)
(* were added (floating-point addition is not associative): two sums are   *)
(* bit-identical when these sequences are equal.                           *)
(***************************************************************************)
EXTENDS Integers, Sequences, FiniteSets, TLC

(***************************************************************************)
(* Bounds of the model.                                                    *)
(***************************************************************************)
MaxSims == 3
MaxThreads == 3

(***************************************************************************)
(* 64-bit words.                                                           *)
(***************************************************************************)
Pow2(r) == IF r = 0 THEN 1 ELSE IF r = 1 THEN 2 ELSE IF r = 2 THEN 4 ELSE IF r = 3 THEN 8 ELSE 16

\* The hexadecimal digit of weight 16^j of word a, 0 outside the word.
Nib(a, j) == IF j >= 0 /\ j <= 15 THEN a[16 - j] ELSE 0

Mk16(F(_)) == <<F(15), F(14), F(13), F(12), F(11), F(10), F(9), F(8),
                F(7), F(6), F(5), F(4), F(3), F(2), F(1), F(0)>>

\* p ^ q and p | q for hexadecimal digits p and q, at [p + 1][q + 1].
XorTab == << <<0, 1, 2, 3, 4, 5, 6, 7, 8, 9, 10, 11, 12, 13, 14, 15>>,
            <<1, 0, 3, 2, 5, 4, 7, 6, 9, 8, 11, 10, 13, 12, 15, 14>>,
            <<2, 3, 0, 1, 6, 7, 4, 5, 10, 11, 8, 9, 14, 15, 12, 13>>,
            <<3, 2, 1, 0, 7, 6, 5, 4, 11, 10, 9, 8, 15, 14, 13, 12>>,
            <<4, 5, 6, 7, 0, 1, 2, 3, 12, 13, 14, 15, 8, 9, 10, 11>>,
            <<5, 4, 7, 6, 1, 0, 3, 2, 13, 12, 15, 14, 9, 8, 11, 10>>,
            <<6, 7, 4, 5, 2, 3, 0, 1, 14, 15, 12, 13, 10, 11, 8, 9>>,
            <<7, 6, 5, 4, 3, 2, 1, 0, 15, 14, 13, 12, 11, 10, 9, 8>>,
            <<8, 9, 10, 11, 12, 13, 14, 15, 0, 1, 2, 3, 4, 5, 6, 7>>,
            <<9, 8, 11, 10, 13, 12, 15, 14, 1, 0, 3, 2, 5, 4, 7, 6>>,
            <<10, 11, 8, 9, 14, 15, 12, 13, 2, 3, 0, 1, 6, 7, 4, 5>>,
            <<11, 10, 9, 8, 15, 14, 13, 12, 3, 2, 1, 0, 7, 6, 5, 4>>,
            <<12, 13, 14, 15, 8, 9, 10, 11, 4, 5, 6, 7, 0, 1, 2, 3>>,
            <<13, 12, 15, 14, 9, 8, 11, 10, 5, 4, 7, 6, 1, 0, 3, 2>>,
            <<14, 15, 12, 13, 10, 11, 8, 9, 6, 7, 4, 5, 2, 3, 0, 1>>,
            <<15, 14, 13, 12, 11, 10, 9, 8, 7, 6, 5, 4, 3, 2, 1, 0>> >>

OrTab == << <<0, 1, 2, 3, 4, 5, 6, 7, 8, 9, 10, 11, 12, 13, 14, 15>>,
           <<1, 1, 3, 3, 5, 5, 7, 7, 9, 9, 11, 11, 13, 13, 15, 15>>,
           <<2, 3, 2, 3, 6, 7, 6, 7, 10, 11, 10, 11, 14, 15, 14, 15>>,
           <<3, 3, 3, 3, 7, 7, 7, 7, 11, 11, 11, 11, 15, 15, 15, 15>>,
           <<4, 5, 6, 7, 4, 5, 6, 7, 12, 13, 14, 15, 12, 13, 14, 15>>,
           <<5, 5, 7, 7, 5, 5, 7, 7, 13, 13, 15, 15, 13, 13, 15, 15>>,
           <<6, 7, 6, 7, 6, 7, 6, 7, 14, 15, 14, 15, 14, 15, 14, 15>>,
           <<7, 7, 7, 7, 7, 7, 7, 7, 15, 15, 15, 15, 15, 15, 15, 15>>,
           <<8, 9, 10, 11, 12, 13, 14, 15, 8, 9, 10, 11, 12, 13, 14, 15>>,
           <<9, 9, 11, 11, 13, 13, 15, 15, 9, 9, 11, 11, 13, 13, 15, 15>>,
           <<10, 11, 10, 11, 14, 15, 14, 15, 10, 11, 10, 11, 14, 15, 14, 15>>,
           <<11, 11, 11, 11, 15, 15, 15, 15, 11, 11, 11, 11, 15, 15, 15, 15>>,
           <<12, 13, 14, 15, 12, 13, 14, 15, 12, 13, 14, 15, 12, 13, 14, 15>>,
           <<13, 13, 15, 15, 13, 13, 15, 15, 13, 13, 15, 15, 13, 13, 15, 15>>,
           <<14, 15, 14, 15, 14, 15, 14, 15, 14, 15, 14, 15, 14, 15, 14, 15>>,
           <<15, 15, 15, 15, 15, 15, 15, 15, 15, 15, 15, 15, 15, 15, 15, 15>> >>

Zero64 == <<0, 0, 0, 0, 0, 0, 0, 0, 0, 0, 0, 0, 0, 0, 0, 0>>

\* The word of a number below 256.
Small(n) == <<0, 0, 0, 0, 0, 0, 0, 0, 0, 0, 0, 0, 0, 0, n \div 16, n % 16>>

Xor(a, b) == LET F(j) == XorTab[a[16 - j] + 1][b[16 - j] + 1] IN Mk16(F)

Or(a, b) == LET F(j) == OrTab[a[16 - j] + 1][b[16 - j] + 1] IN Mk16(F)

\* a << k and a >> k, 0 < k < 64.
Shl(a, k) == LET q == k \div 4
                 r == k % 4
                 F(j) == ((Nib(a, j - q) * Pow2(r)) % 16) + (Nib(a, j - q - 1) \div Pow2(4 - r))
             IN Mk16(F)

Shr(a, k) == LET q == k \div 4
                 r == k % 4
                 F(j) == (Nib(a, j + q) \div Pow2(r)) + ((Nib(a, j + q + 1) * Pow2(4 - r)) % 16)
             IN Mk16(F)

\* The digits of a word given least significant first.
Rev(d) == LET F(j) == d[j + 1] IN Mk16(F)

\* The word of the column sums C(0) .. C(15), C(j) of weight 16^j, modulo
\* 2^64: carries are propagated from the least significant digit up.
Carry16(C(_)) ==
    LET t0 == C(0)
        t1 == C(1) + (t0 \div 16)
        t2 == C(2) + (t1 \div 16)
        t3 == C(3) + (t2 \div 16)
        t4 == C(4) + (t3 \div 16)
        t5 == C(5) + (t4 \div 16)
        t6 == C(6) + (t5 \div 16)
        t7 == C(7) + (t6 \div 16)
        t8 == C(8) + (t7 \div 16)
        t9 == C(9) + (t8 \div 16)
        t10 == C(10) + (t9 \div 16)
        t11 == C(11) + (t10 \div 16)
        t12 == C(12) + (t11 \div 16)
        t13 == C(13) + (t12 \div 16)
        t14 == C(14) + (t13 \div 16)
        t15 == C(15) + (t14 \div 16)
    IN Rev(<<t0 % 16, t1 % 16, t2 % 16, t3 % 16, t4 % 16, t5 % 16, t6 % 16, t7 % 16,
                  t8 % 16, t9 % 16, t10 % 16, t11 % 16, t12 % 16, t13 % 16, t14 % 16, t15 % 16>>)

\* a + b modulo 2^64.
Add(a, b) == LET C(j) == Nib(a, j) + Nib(b, j) IN Carry16(C)

\* a * b modulo 2^64.
RECURSIVE ColSum(_, _, _, _)
ColSum(a, b, j, i) ==
    IF i > j THEN 0 ELSE Nib(a, i) * Nib(b, j - i) + ColSum(a, b, j, i + 1)

Mul(a, b) == LET C(j) == ColSum(a, b, j, 0) IN Carry16(C)

\* a * k modulo 2^64 for a digit k.
MulDigit(a, k) == LET C(j) == Nib(a, j) * k IN Carry16(C)

\* Bit b (0 the least significant) of word w.
BitOf(w, b) == (Nib(w, b \div 4) \div Pow2(b % 4)) % 2

(***************************************************************************)
(* SplitMix64 and xoshiro256**.  An RNG state is a tuple of four words,    *)
(* rng[1] .. rng[4] standing for s[0] .. s[3].                             *)
(***************************************************************************)
GoldenGamma == <<9, 14, 3, 7, 7, 9, 11, 9, 7, 15, 4, 10, 7, 12, 1, 5>>
MixMul1 == <<11, 15, 5, 8, 4, 7, 6, 13, 1, 12, 14, 4, 14, 5, 11, 9>>
MixMul2 == <<9, 4, 13, 0, 4, 9, 11, 11, 1, 3, 3, 1, 1, 1, 14, 11>>

\* splitmix64: the state after the call, and the value returned.
splitmix64_state(st) == Add(st, GoldenGamma)

splitmix64(st) ==
    LET z0 == splitmix64_state(st)
        z1 == Mul(Xor(z0, Shr(z0, 30)), MixMul1)
        z2 == Mul(Xor(z1, Shr(z1, 27)), MixMul2)
    IN Xor(z2, Shr(z2, 31))

rotl(x, k) == Or(Shl(x, k), Shr(x, 64 - k))

\* mco_rng_next: the value returned, and the state after the call.
mco_rng_next_result(rng) == MulDigit(rotl(MulDigit(rng[2], 5), 7), 9)

mco_rng_next_state(rng) ==
    LET t == Shl(rng[2], 17)
        s2a == Xor(rng[3], rng[1])
        s3a == Xor(rng[4], rng[2])
        s1b == Xor(rng[2], s2a)
        s0b == Xor(rng[1], s3a)
        s2c == Xor(s2a, t)
        s3c == rotl(s3a, 45)
    IN <<s0b, s1b, s2c, s3c>>

AllZero(rng) == rng[1] = Zero64 /\ rng[2] = Zero64 /\ rng[3] = Zero64 /\ rng[4] = Zero64

\* Variant of mco_rng_seed: the seed stored as the first state word.
mco_rng_seed_raw(seed) == <<seed, Zero64, Zero64, Zero64>>

mco_rng_seed(seed) ==
    LET st1 == splitmix64_state(seed)
        st2 == splitmix64_state(st1)
        st3 == splitmix64_state(st2)
        r == <<splitmix64(seed), splitmix64(st1), splitmix64(st2), splitmix64(st3)>>
    IN IF AllZero(r) THEN <<Small(1), r[2], r[3], r[4]>> ELSE r

\* mco_rng_uniform: the 53-bit integer x >> 11 that the double is scaled from.
mco_rng_uniform_value(rng) == Shr(mco_rng_next_result(rng), 11)

\* mco_rng_normal: two uniforms, u1 drawn first; the state after both draws.
mco_rng_normal_value(rng) ==
    <<mco_rng_uniform_value(rng), mco_rng_uniform_value(mco_rng_next_state(rng))>>

mco_rng_normal_state(rng) == mco_rng_next_state(mco_rng_next_state(rng))

JUMP == << <<1, 8, 0, 14, 12, 6, 13, 3, 3, 12, 15, 13, 0, 10, 11, 10>>,
           <<13, 5, 10, 6, 1, 2, 6, 6, 15, 0, 12, 9, 3, 9, 2, 12>>,
           <<10, 9, 5, 8, 2, 6, 1, 8, 14, 0, 3, 15, 12, 9, 10, 10>>,
           <<3, 9, 10, 11, 13, 12, 4, 5, 2, 9, 11, 1, 6, 6, 1, 12>> >>

Xor4(p, q) == <<Xor(p[1], q[1]), Xor(p[2], q[2]), Xor(p[3], q[3]), Xor(p[4], q[4])>>

\* Iteration n = 64 * i + b of the two loops of mco_rng_jump on the pair
\* <<rng, <<s0, s1, s2, s3>>>>.
JumpIter(st, n) ==
    <<mco_rng_next_state(st[1]),
      IF BitOf(JUMP[(n \div 64) + 1], n % 64) = 1 THEN Xor4(st[2], st[1]) ELSE st[2]>>

\* Iterations lo .. hi - 1 in order, the first half before the second.
RECURSIVE JumpRange(_, _, _)
JumpRange(st, lo, hi) ==
    IF hi = lo + 1 THEN JumpIter(st, lo)
    ELSE LET mid == (lo + hi) \div 2
         IN CHOOSE r \in {JumpRange(m, mid, hi) : m \in {JumpRange(st, lo, mid)}} : TRUE

mco_rng_jump(rng) == JumpRange(<<rng, <<Zero64, Zero64, Zero64, Zero64>>>>, 0, 256)[2]


(***************************************************************************)
(* The simulation context (struct mco_ctx) and the values of mco_error.    *)
(***************************************************************************)
MCO_DEFAULT_SIMULATIONS == 100000
MCO_DEFAULT_STEPS == 252
MCO_DEFAULT_THREADS == 1
\* 0xDEADBEEF
MCO_DEFAULT_SEED == <<0, 0, 0, 0, 0, 0, 0, 0, 13, 14, 10, 13, 11, 14, 14, 15>>

MCO_OK == "MCO_OK"
MCO_ERR_NOMEM == "MCO_ERR_NOMEM"
MCO_ERR_INVALID_ARG == "MCO_ERR_INVALID_ARG"
MCO_ERR_THREAD == "MCO_ERR_THREAD"

\* Seeds handed to mco_set_seed.
Seeds == {Small(42)}

Threads == 0 .. (MaxThreads - 1)

\* Argument tuples of a pricing call: spot, strike, volatility, time to
\* maturity, 0 being the boundary of each check: the tuple with every
\* argument in range, those with one out of range, and the one with all four.
OutOfRange(a) ==
    {f \in {"spot", "strike", "volatility", "time"} :
        IF f \in {"spot", "strike"} THEN a[f] <= 0 ELSE a[f] < 0}

ArgSet ==
    {a \in [spot : {0, 100}, strike : {0, 100}, volatility : {-1, 0}, time : {-1, 0}] :
        Cardinality(OutOfRange(a)) \in {0, 1, 4}}

NoArgs == [spot |-> 100, strike |-> 100, volatility |-> 0, time |-> 0]

\* Values returned by a pricing call: the literal 0.0 of an early return, or
\* discount * (sum / paths).
NoReturn == [kind |-> "none", sum |-> <<>>, paths |-> 0]
Zero == [kind |-> "zero", sum |-> <<>>, paths |-> 0]
Price(sum, paths) == [kind |-> "price", sum |-> sum, paths |-> paths]

\* ctx->last_error = MCO_ERR_NOMEM, and its variant that leaves it alone.
OutOfMemoryUnrecorded(c) == c

OutOfMemory(c) == [c EXCEPT !.last_error = MCO_ERR_NOMEM]

mco_ctx_new ==
    [num_simulations |-> MCO_DEFAULT_SIMULATIONS,
     num_steps |-> MCO_DEFAULT_STEPS,
     seed |-> MCO_DEFAULT_SEED,
     num_threads |-> MCO_DEFAULT_THREADS,
     antithetic_enabled |-> 0,
     rng |-> mco_rng_seed(MCO_DEFAULT_SEED),
     last_error |-> MCO_OK]

(***************************************************************************)
(* Payoff accumulation.  mco_payoff(mco_gbm_terminal(model, z), ...) for   *)
(* fixed option parameters is a function of z and of the sign z is taken   *)
(* with.                                                                   *)
(***************************************************************************)
Payoff(z, sign) == [z |-> z, sign |-> sign]

\* One iteration of the loop of price_european_basic and of
\* worker_european_basic on <<rng, sum>>: mco_gbm_simulate, then sum +=.
BasicIter(st) ==
    <<mco_rng_normal_state(st[1]), Append(st[2], Payoff(mco_rng_normal_value(st[1]), 1))>>

\* One iteration of the loop of mco_antithetic_european_sum on <<rng, sum>>.
AntitheticIter(st) ==
    <<mco_rng_normal_state(st[1]),
      st[2] \o <<Payoff(mco_rng_normal_value(st[1]), 1), Payoff(mco_rng_normal_value(st[1]), -1)>> >>

\* The loops run pass by pass: the set binds the state a pass leaves before
\* the next pass is taken.
RECURSIVE BasicLoop(_, _, _)
BasicLoop(st, i, n) ==
    IF i < n THEN CHOOSE r \in {BasicLoop(m, i + 1, n) : m \in {BasicIter(st)}} : TRUE
    ELSE st

RECURSIVE mco_antithetic_european_sum(_, _, _)
mco_antithetic_european_sum(st, i, num_pairs) ==
    IF i < num_pairs
    THEN CHOOSE r \in {mco_antithetic_european_sum(m, i + 1, num_pairs) :
                         m \in {AntitheticIter(st)}} : TRUE
    ELSE st

\* num_pairs of mco_antithetic_european and of worker_european_antithetic.
NumPairs(n) == IF n \div 2 = 0 THEN 1 ELSE n \div 2

\* price_european_basic: <<ctx->rng after the call, value returned>>.
price_european_basic(rng, n) ==
    LET st == BasicLoop(<<rng, <<>>>>, 0, n)
    IN <<st[1], Price(st[2], n)>>

\* price_european_antithetic, that is mco_antithetic_european on ctx->rng.
price_european_antithetic(rng, num_sims) ==
    LET num_pairs == NumPairs(num_sims)
        st == mco_antithetic_european_sum(<<rng, <<>>>>, 0, num_pairs)
    IN <<st[1], Price(st[2], 2 * num_pairs)>>

(***************************************************************************)
(* Thread work units (mco_thread_work).                                    *)
(***************************************************************************)
Unit(rng, start, end) ==
    [rng |-> rng, start_sim |-> start, end_sim |-> end, partial_sum |-> <<>>]

\* The loop of mco_thread_work_init from thread i on; rng is the local copy.
RECURSIVE WorkInitFrom(_, _, _, _, _, _)
WorkInitFrom(i, num_threads, rng, start, sims_per_thread, remainder) ==
    IF i = num_threads THEN <<>>
    ELSE LET count == sims_per_thread + (IF i < remainder THEN 1 ELSE 0)
         IN <<Unit(rng, start, start + count)>>
            \o (CHOOSE r \in {WorkInitFrom(i + 1, num_threads, m, start + count,
                                            sims_per_thread, remainder) :
                               m \in {mco_rng_jump(rng)}} : TRUE)

RECURSIVE JumpTimes(_, _)
JumpTimes(rng, k) ==
    IF k = 0 THEN rng
    ELSE CHOOSE r \in {JumpTimes(m, k - 1) : m \in {mco_rng_jump(rng)}} : TRUE

\* Variants of mco_thread_work_init: storing the state after the jump, and
\* jumping *base_rng itself instead of a copy of it.
mco_thread_work_init_jump_first(num_threads, base_rng, total_sims) ==
    [work |-> WorkInitFrom(0, num_threads, mco_rng_jump(base_rng), 0,
                           total_sims \div num_threads, total_sims % num_threads),
     base_rng |-> base_rng]

mco_thread_work_init_in_place(num_threads, base_rng, total_sims) ==
    [work |-> WorkInitFrom(0, num_threads, base_rng, 0,
                           total_sims \div num_threads, total_sims % num_threads),
     base_rng |-> JumpTimes(base_rng, num_threads)]

\* mco_thread_work_init: the work array, and *base_rng after the call.
mco_thread_work_init(num_threads, base_rng, total_sims) ==
    [work |-> WorkInitFrom(0, num_threads, base_rng, 0,
                           total_sims \div num_threads, total_sims % num_threads),
     base_rng |-> base_rng]

\* worker_european_basic and worker_european_antithetic run from start to
\* end on one work unit.
worker_european_basic(u) ==
    LET st == BasicLoop(<<u.rng, <<>>>>, u.start_sim, u.end_sim)
    IN [u EXCEPT !.rng = st[1], !.partial_sum = st[2]]

\* Variant of AntitheticEndSim: end_sim left as mco_thread_work_init set it.
AntitheticEndSimKept(u, num_pairs) == u.end_sim

\* work->end_sim = work->start_sim + (2 * num_pairs), the last store of
\* worker_european_antithetic.
AntitheticEndSim(u, num_pairs) == u.start_sim + 2 * num_pairs

worker_european_antithetic(u) ==
    LET num_pairs == NumPairs(u.end_sim - u.start_sim)
        st == mco_antithetic_european_sum(<<u.rng, <<>>>>, 0, num_pairs)
    IN [u EXCEPT !.rng = st[1], !.partial_sum = st[2],
                 !.end_sim = AntitheticEndSim(u, num_pairs)]

\* The reduction loop of mco_parallel_european from thread i on.
RECURSIVE ReduceSum(_, _)
ReduceSum(w, i) == IF i > Len(w) THEN <<>> ELSE <<w[i].partial_sum>> \o ReduceSum(w, i + 1)

RECURSIVE ReducePaths(_, _)
ReducePaths(w, i) ==
    IF i > Len(w) THEN 0 ELSE (w[i].end_sim - w[i].start_sim) + ReducePaths(w, i + 1)

Reduce(w) == Price(ReduceSum(w, 1), ReducePaths(w, 1))


(***************************************************************************)
(* The heap.  Each allocation site of a pricing call has a name, the name  *)
(* of the pointer it assigns.  A site is "none" before its allocation is   *)
(* attempted, "failed" when the allocator returned NULL, "live" when it    *)
(* returned a buffer, "freed" once that buffer was released.  The pointer  *)
(* is null while the site is "none" or "failed".                           *)
(***************************************************************************)
Buffers == {"work", "threads", "path", "paths", "cashflow", "exercise_time", "A", "Y",
            "itm_indices", "spot_at_ex", "ex_steps", "ex_times"}

NoHeap == [b \in Buffers |-> "none"]

IsNull(h, b) == h[b] \in {"none", "failed"}

\* mco_malloc / mco_calloc at site b, on the pair <<heap, faults>>: NULL when
\* the allocation is one of those that fail.
Alloc(st, b, fail) == <<[st[1] EXCEPT ![b] = IF b \in fail THEN "failed" ELSE "live"], st[2]>>

\* mco_free of the pointer of site b: nothing for a null pointer.
mco_free(st, b) ==
    <<[st[1] EXCEPT ![b] = IF @ = "live" THEN "freed" ELSE @],
      IF st[1][b] = "freed" THEN st[2] \cup {"double_free"} ELSE st[2]>>

\* A read or write through the pointer of site b.
Use(st, b) ==
    <<st[1],
      IF st[1][b] = "freed" THEN st[2] \cup {"use_after_free"}
      ELSE IF IsNull(st[1], b) THEN st[2] \cup {"null_dereference"}
      ELSE st[2]>>

\* The same for the sites of a sequence, in order.
RECURSIVE Allocs(_, _, _)
Allocs(st, sites, fail) ==
    IF sites = <<>> THEN st ELSE Allocs(Alloc(st, Head(sites), fail), Tail(sites), fail)

RECURSIVE Frees(_, _)
Frees(st, sites) == IF sites = <<>> THEN st ELSE Frees(mco_free(st, Head(sites)), Tail(sites))

RECURSIVE Uses(_, _)
Uses(st, sites) == IF sites = <<>> THEN st ELSE Uses(Use(st, Head(sites)), Tail(sites))

AnyNull(st, sites) == \E i \in 1 .. Len(sites) : IsNull(st[1], sites[i])

\* The allocations that fail during one call, of those at the given sites:
\* none, one, or all of them.
FailSets(sites) == {{}} \cup {{b} : b \in sites} \cup {sites}

(***************************************************************************)
(* State.                                                                  *)
(*   ctx          the context                                              *)
(*   pc           where the caller / the dispatcher stands                 *)
(*   fn           the pricing function called                              *)
(*   args, count  its arguments: spot, strike, volatility, time, and the   *)
(*                number of steps, observations or exercise dates          *)
(*   ret          the value the pricing call returned                      *)
(*   heap, faults the status of each allocation, and the memory and        *)
(*                threading faults seen so far                             *)
(*   work         the work array of mco_parallel_european                  *)
(*   worker_fn    the worker function it selected                          *)
(*   idx          its loop index i (spawn, join) or j (join after a        *)
(*                failed spawn)                                            *)
(*   price        its local of that name                                   *)
(*   wk           per thread: its position, its argument (the index of     *)
(*                the unit it was handed), its loop counter and bound, its *)
(*                local sum                                                *)
(* History:                                                                *)
(*   rng_entry    ctx.rng when the pricing call was entered                *)
(*   created      the threads pthread_create has started                   *)
(*   joins        how many times each thread was joined                    *)
(*   spawn_failed the index at which pthread_create failed, or -1          *)
(*   rng_start    per thread, the RNG state of its unit when it started    *)
(***************************************************************************)
VARIABLES ctx, pc, fn, args, count, ret, heap, faults, work, worker_fn, idx, price, wk,
          rng_entry, created, joins, spawn_failed, rng_start

pricing == <<ctx, pc, fn, args, count, ret, heap, faults, work, worker_fn, idx, price, wk,
             rng_entry, created, joins, spawn_failed, rng_start>>

(***************************************************************************)
(* The rest of the library, which a pricing call on one context leaves     *)
(* alone:                                                                  *)
(*   got          the operation and the value of the last read of the      *)
(*                context API                                              *)
(*   globals      the variables of static storage duration that are not    *)
(*                const: g_allocators and version_buf                      *)
(*   touched      the names of those an operation has read or written      *)
(*   prng         a generator (mco_rng) used on its own                    *)
(*   ctxs, calls, done                                                     *)
(*                two contexts used side by side, the pricing call in      *)
(*                progress on each, and the operations completed on each   *)
(*   sobol        a Sobol generator (mco_sobol) and the last point it gave *)
(*   barrier      the inputs and results of mco_price_barrier calls        *)
(*   lsm          the arrays of mco_lsm_american during a call             *)
(*   heston       a Heston state (spot, variance) stepped on its own       *)
(*   sabr         a SABR state (forward, volatility) stepped on its own    *)
(*   bermudan     the exercise schedule and the fine grid of a call of     *)
(*                mco_price_bermudan                                       *)
(***************************************************************************)
VARIABLES got, globals, touched, prng, ctxs, calls, done, sobol, barrier, lsm, heston, sabr,
          bermudan

kernels == <<lsm, heston, sabr, bermudan>>

library == <<got, globals, touched, prng, ctxs, calls, done, sobol, barrier, kernels>>

vars == <<pricing, library>>

dispatcher == <<work, worker_fn, idx, price, wk, created, joins, spawn_failed, rng_start>>

NoWorker == [pc |-> "none", arg |-> 0, i |-> 0, n |-> 0, sum |-> <<>>]

\* The values the rest of the library holds while it is not in use.
NoRead == [op |-> "none", null |-> FALSE, value |-> 0, kept |-> TRUE]

\* g_allocators = {malloc, realloc, free}; version_buf = {0}
StaticInit == [g_allocators |-> [f_malloc |-> "malloc", f_realloc |-> "realloc", f_free |-> "free"],
               version_buf |-> ""]

NoGenerator == [s |-> <<>>, ops |-> 0, last |-> "none", out |-> <<>>]

NoSobol == [pc |-> "off", result |-> 0, dim |-> 0, count |-> Zero64, x |-> <<>>, v |-> <<>>,
            point |-> <<>>, ops |-> <<>>]

NoBarrier == [pc |-> "off", inputs |-> <<>>, results |-> <<>>, last_error |-> "MCO_OK",
              style |-> "none", rng |-> <<>>, i |-> 0, sum |-> <<>>, hits |-> <<>>,
              terminals |-> <<>>]

ApiIdle == got = NoRead /\ globals = StaticInit /\ touched = {}

RngIdle == prng = NoGenerator

TwoIdle == ctxs = <<>> /\ calls = <<>> /\ done = <<>>

SobolIdle == sobol = NoSobol

BarrierIdle == barrier = NoBarrier

NoKernel == [pc |-> "off"]

KernelsIdle == lsm = NoKernel /\ heston = NoKernel /\ sabr = NoKernel /\ bermudan = NoKernel

LibraryInit == ApiIdle /\ RngIdle /\ TwoIdle /\ SobolIdle /\ BarrierIdle /\ KernelsIdle

PricingInit ==
    /\ ctx = mco_ctx_new
    /\ pc = "config"
    /\ fn = "none"
    /\ args = NoArgs
    /\ count = 0
    /\ ret = NoReturn
    /\ heap = NoHeap
    /\ faults = {}
    /\ work = <<>>
    /\ worker_fn = "none"
    /\ idx = 0
    /\ price = NoReturn
    /\ wk = [w \in Threads |-> NoWorker]
    /\ rng_entry = mco_ctx_new.rng
    /\ created = {}
    /\ joins = [w \in Threads |-> 0]
    /\ spawn_failed = -1
    /\ rng_start = [w \in Threads |-> <<>>]

Init == PricingInit /\ LibraryInit

(***************************************************************************)
(* Setters.  What each stores in the context c it is called on.            *)
(***************************************************************************)
\* Variants: storing n as it comes.
SetSimulationsUnchecked(c, n) == [c EXCEPT !.num_simulations = n]

SetStepsUnchecked(c, n) == [c EXCEPT !.num_steps = n]

SetThreadsUnchecked(c, n) == [c EXCEPT !.num_threads = n]

SetSimulations(c, n) == [c EXCEPT !.num_simulations = IF n > 0 THEN n ELSE @]

SetSteps(c, n) == [c EXCEPT !.num_steps = IF n > 0 THEN n ELSE @]

SetSeed(c, seed) == [c EXCEPT !.seed = seed, !.rng = mco_rng_seed(seed)]

SetThreads(c, n) == [c EXCEPT !.num_threads = IF n > 0 THEN n ELSE 1]

SetAntithetic(c, enabled) == [c EXCEPT !.antithetic_enabled = IF enabled # 0 THEN 1 ELSE 0]

mco_set_simulations(n) ==
    /\ pc = "config"
    /\ ctx' = SetSimulations(ctx, n)
    /\ UNCHANGED <<pc, fn, args, count, ret, heap, faults, rng_entry, dispatcher>>
    /\ UNCHANGED library

mco_set_seed(seed) ==
    /\ pc = "config"
    /\ ctx' = SetSeed(ctx, seed)
    /\ UNCHANGED <<pc, fn, args, count, ret, heap, faults, rng_entry, dispatcher>>
    /\ UNCHANGED library

mco_set_threads(n) ==
    /\ pc = "config"
    /\ ctx' = SetThreads(ctx, n)
    /\ UNCHANGED <<pc, fn, args, count, ret, heap, faults, rng_entry, dispatcher>>
    /\ UNCHANGED library

mco_set_antithetic(enabled) ==
    /\ pc = "config"
    /\ ctx' = SetAntithetic(ctx, enabled)
    /\ UNCHANGED <<pc, fn, args, count, ret, heap, faults, rng_entry, dispatcher>>
    /\ UNCHANGED library

(***************************************************************************)
(* mco_price_european, called on a non-null context.                       *)
(***************************************************************************)
InvalidEuropean(a) == a.spot <= 0 \/ a.strike <= 0 \/ a.volatility < 0 \/ a.time < 0

\* The call returns at the argument check.
mco_price_european_invalid(a) ==
    /\ pc = "config"
    /\ ctx.num_simulations <= MaxSims
    /\ InvalidEuropean(a)
    /\ fn' = "mco_price_european"
    /\ args' = a
    /\ count' = 0
    /\ rng_entry' = ctx.rng
    /\ ctx' = [ctx EXCEPT !.last_error = MCO_ERR_INVALID_ARG]
    /\ ret' = Zero
    /\ pc' = "returned"
    /\ UNCHANGED <<heap, faults, dispatcher>>
    /\ UNCHANGED library

\* The single-threaded path, drawing from ctx->rng.
mco_price_european_single(a) ==
    /\ pc = "config"
    /\ ctx.num_simulations <= MaxSims
    /\ ~InvalidEuropean(a)
    /\ ctx.num_threads <= 1
    /\ fn' = "mco_price_european"
    /\ args' = a
    /\ count' = 0
    /\ rng_entry' = ctx.rng
    /\ LET r == IF ctx.antithetic_enabled # 0
                THEN price_european_antithetic(ctx.rng, ctx.num_simulations)
                ELSE price_european_basic(ctx.rng, ctx.num_simulations)
       IN /\ ctx' = [ctx EXCEPT !.rng = r[1]]
          /\ ret' = r[2]
    /\ pc' = "returned"
    /\ UNCHANGED <<heap, faults, dispatcher>>
    /\ UNCHANGED library

\* The multi-threaded path: mco_parallel_european is entered.
mco_price_european_parallel(a) ==
    /\ pc = "config"
    /\ ctx.num_simulations <= MaxSims
    /\ ~InvalidEuropean(a)
    /\ ctx.num_threads > 1
    /\ fn' = "mco_price_european"
    /\ args' = a
    /\ count' = 0
    /\ rng_entry' = ctx.rng
    /\ pc' = "alloc_work"
    /\ UNCHANGED <<ctx, ret, heap, faults, dispatcher>>
    /\ UNCHANGED library


(***************************************************************************)
(* mco_parallel_european: the dispatcher.                                  *)
(***************************************************************************)
\* Variants of the four definitions below: every thread handed &work[0], a
\* join that does not wait, a join loop one short, another error code.
WorkerArgFirst(i) == 0

pthread_join_no_wait(w) == TRUE

SpawnFailJoinBoundShort(i) == i - 1

SpawnFailErrorNoMem == MCO_ERR_NOMEM

\* The argument pthread_create hands to thread i: &work[i].
WorkerArg(i) == i

\* pthread_join(threads[w]) returns once thread w has returned.
pthread_join_returns(w) == wk[w].pc = "done"

\* The bound of the join loop after pthread_create failed at index i.
SpawnFailJoinBound(i) == i

\* The error recorded when pthread_create fails.
SpawnFailError == MCO_ERR_THREAD

\* The threads started and not joined yet.
Unjoined == {w \in created : joins[w] = 0}

\* work = mco_calloc(num_threads, sizeof(mco_thread_work))
ParAllocWork(ok) ==
    /\ pc = "alloc_work"
    /\ heap' = Alloc(<<heap, faults>>, "work", IF ok THEN {} ELSE {"work"})[1]
    /\ IF ok
       THEN /\ pc' = "alloc_threads"
            /\ UNCHANGED <<ctx, ret>>
       ELSE /\ ctx' = OutOfMemory(ctx)
            /\ ret' = Zero
            /\ pc' = "returned"
    /\ UNCHANGED <<fn, args, count, faults, rng_entry, dispatcher>>
    /\ UNCHANGED library

\* threads = mco_malloc(num_threads * sizeof(pthread_t))
ParAllocThreads(ok) ==
    /\ pc = "alloc_threads"
    /\ IF ok
       THEN /\ heap' = Alloc(<<heap, faults>>, "threads", {})[1]
            /\ pc' = "init"
            /\ UNCHANGED <<ctx, ret, faults>>
       ELSE /\ LET st == mco_free(Alloc(<<heap, faults>>, "threads", {"threads"}), "work")
               IN /\ heap' = st[1]
                  /\ faults' = st[2]
            /\ ctx' = OutOfMemory(ctx)
            /\ ret' = Zero
            /\ pc' = "returned"
    /\ UNCHANGED <<fn, args, count, rng_entry, dispatcher>>
    /\ UNCHANGED library

\* mco_thread_work_init, the option parameters, the choice of worker_fn.
ParInit ==
    /\ pc = "init"
    /\ LET r == mco_thread_work_init(ctx.num_threads, ctx.rng, ctx.num_simulations)
       IN /\ work' = r.work
          /\ ctx' = [ctx EXCEPT !.rng = r.base_rng]
    /\ worker_fn' = IF ctx.antithetic_enabled # 0 THEN "worker_european_antithetic"
                    ELSE "worker_european_basic"
    /\ idx' = 0
    /\ pc' = "spawn"
    /\ UNCHANGED <<fn, args, count, ret, heap, faults, rng_entry, price, wk, created, joins,
                   spawn_failed, rng_start>>
    /\ UNCHANGED library

\* One pass of the spawn loop: pthread_create(&threads[i], NULL, worker_fn, &work[i]).
ParSpawn(ok) ==
    /\ pc = "spawn"
    /\ IF ok
       THEN /\ wk' = [wk EXCEPT ![idx] = [NoWorker EXCEPT !.pc = "start", !.arg = WorkerArg(idx)]]
            /\ created' = created \cup {idx}
            /\ faults' = IF \E w \in created : wk[w].arg = WorkerArg(idx)
                         THEN faults \cup {"data_race"} ELSE faults
            /\ idx' = IF idx + 1 < ctx.num_threads THEN idx + 1 ELSE 0
            /\ pc' = IF idx + 1 < ctx.num_threads THEN "spawn" ELSE "join"
            /\ UNCHANGED spawn_failed
       ELSE /\ spawn_failed' = idx
            /\ idx' = 0
            /\ pc' = IF 0 < SpawnFailJoinBound(idx) THEN "fail_join" ELSE "fail_free"
            /\ UNCHANGED <<wk, created, faults>>
    /\ UNCHANGED <<ctx, fn, args, count, ret, heap, rng_entry, work, worker_fn, price, joins, rng_start>>
    /\ UNCHANGED library

\* One pass of the join loop after a failed pthread_create.
ParFailJoin ==
    /\ pc = "fail_join"
    /\ pthread_join_returns(idx)
    /\ joins' = [joins EXCEPT ![idx] = @ + 1]
    /\ idx' = idx + 1
    /\ pc' = IF idx + 1 < SpawnFailJoinBound(spawn_failed) THEN "fail_join" ELSE "fail_free"
    /\ UNCHANGED <<ctx, fn, args, count, ret, heap, faults, rng_entry, work, worker_fn, price, wk,
                   created, spawn_failed, rng_start>>
    /\ UNCHANGED library

\* mco_free(threads); mco_free(work); last_error; return 0.0
ParFailFree ==
    /\ pc = "fail_free"
    /\ LET st == mco_free(mco_free(<<heap, faults>>, "threads"), "work")
       IN /\ heap' = st[1]
          /\ faults' = st[2]
    /\ ctx' = [ctx EXCEPT !.last_error = SpawnFailError]
    /\ ret' = Zero
    /\ pc' = "returned"
    /\ UNCHANGED <<fn, args, count, rng_entry, dispatcher>>
    /\ UNCHANGED library

\* One pass of the join loop.
ParJoin ==
    /\ pc = "join"
    /\ pthread_join_returns(idx)
    /\ joins' = [joins EXCEPT ![idx] = @ + 1]
    /\ idx' = IF idx + 1 < ctx.num_threads THEN idx + 1 ELSE 0
    /\ pc' = IF idx + 1 < ctx.num_threads THEN "join" ELSE "reduce"
    /\ UNCHANGED <<ctx, fn, args, count, ret, heap, faults, rng_entry, work, worker_fn, price, wk,
                   created, spawn_failed, rng_start>>
    /\ UNCHANGED library

\* The reduction loop and the price; reading a unit whose thread has not
\* been joined is a data race.
ParReduce ==
    /\ pc = "reduce"
    /\ price' = Reduce(work)
    /\ faults' = IF Unjoined # {} THEN faults \cup {"data_race"} ELSE faults
    /\ pc' = "cleanup"
    /\ UNCHANGED <<ctx, fn, args, count, ret, heap, rng_entry, work, worker_fn, idx, wk, created, joins,
                   spawn_failed, rng_start>>
    /\ UNCHANGED library

\* mco_free(threads); mco_free(work); return price
ParCleanup ==
    /\ pc = "cleanup"
    /\ LET st == mco_free(mco_free(<<heap, faults>>, "threads"), "work")
       IN /\ heap' = st[1]
          /\ faults' = st[2]
    /\ ret' = price
    /\ pc' = "returned"
    /\ UNCHANGED <<ctx, fn, args, count, rng_entry, dispatcher>>
    /\ UNCHANGED library

(***************************************************************************)
(* The worker threads.  Thread w works on the unit its argument points to. *)
(***************************************************************************)
UnitOf(w) == work[wk[w].arg + 1]

\* An access of the work array after it was released.
Touch == IF heap["work"] = "live" THEN faults ELSE faults \cup {"use_after_free"}

\* Entry of the worker function, up to its loop.
WorkerBegin(w) ==
    /\ wk[w].pc = "start"
    /\ rng_start' = [rng_start EXCEPT ![w] = UnitOf(w).rng]
    /\ wk' = [wk EXCEPT ![w] =
                 IF worker_fn = "worker_european_antithetic"
                 THEN [@ EXCEPT !.pc = "loop", !.i = 0,
                                !.n = NumPairs(UnitOf(w).end_sim - UnitOf(w).start_sim)]
                 ELSE [@ EXCEPT !.pc = "loop", !.i = UnitOf(w).start_sim]]
    /\ faults' = Touch
    /\ UNCHANGED <<ctx, pc, fn, args, count, ret, heap, rng_entry, work, worker_fn, idx, price, created,
                   joins, spawn_failed>>
    /\ UNCHANGED library

\* The loop test of the worker function.
WorkerMore(w) ==
    IF worker_fn = "worker_european_antithetic" THEN wk[w].i < wk[w].n
    ELSE wk[w].i < UnitOf(w).end_sim

\* One pass of the worker's loop, drawing from the unit's RNG in place.
WorkerIter(w) ==
    /\ wk[w].pc = "loop"
    /\ WorkerMore(w)
    /\ LET st == IF worker_fn = "worker_european_antithetic"
                 THEN AntitheticIter(<<UnitOf(w).rng, wk[w].sum>>)
                 ELSE BasicIter(<<UnitOf(w).rng, wk[w].sum>>)
       IN /\ work' = [work EXCEPT ![wk[w].arg + 1].rng = st[1]]
          /\ wk' = [wk EXCEPT ![w].sum = st[2], ![w].i = @ + 1]
    /\ faults' = Touch
    /\ UNCHANGED <<ctx, pc, fn, args, count, ret, heap, rng_entry, worker_fn, idx, price, created, joins,
                   spawn_failed, rng_start>>
    /\ UNCHANGED library

\* The stores after the loop, and the return.
WorkerEnd(w) ==
    /\ wk[w].pc = "loop"
    /\ ~WorkerMore(w)
    /\ work' = [work EXCEPT ![wk[w].arg + 1] =
                   IF worker_fn = "worker_european_antithetic"
                   THEN [@ EXCEPT !.partial_sum = wk[w].sum,
                                  !.end_sim = AntitheticEndSim(UnitOf(w), wk[w].n)]
                   ELSE [@ EXCEPT !.partial_sum = wk[w].sum]]
    /\ wk' = [wk EXCEPT ![w].pc = "done"]
    /\ faults' = Touch
    /\ UNCHANGED <<ctx, pc, fn, args, count, ret, heap, rng_entry, worker_fn, idx, price, created, joins,
                   spawn_failed, rng_start>>
    /\ UNCHANGED library

(***************************************************************************)
(* The other Monte Carlo pricers, each called on a non-null context.  Of   *)
(* these the model keeps the argument checks, the allocations, the use and *)
(* the release of each buffer, the error recorded and whether the value    *)
(* returned is the literal 0.0 or a computed one; the simulation itself,   *)
(* which draws from a copy of ctx->rng, is not carried out.  A pricer is   *)
(* an operator from the context c, the pair st of heap and faults, the     *)
(* arguments and the set of allocations that fail, to the context, heap    *)
(* and faults it leaves and the value it returns.                          *)
(***************************************************************************)
MaxCount == 2

MCO_DEFAULT_AMERICAN_STEPS == 52

\* A value computed from n_paths simulated paths.
Value(n_paths) == [kind |-> "value", sum |-> <<>>, paths |-> n_paths]

Return(c, st, r) == [ctx |-> c, heap |-> st[1], faults |-> st[2], ret |-> r]

InvalidArgument(c) == [c EXCEPT !.last_error = MCO_ERR_INVALID_ARG]

mco_price_digital(c, st, a) == Return(c, st, Value(c.num_simulations))

mco_price_barrier(c, st, a, num_steps, fail) ==
    IF num_steps = 0 THEN Return(c, st, Zero)
    ELSE LET s1 == Alloc(st, "path", fail)
         IN IF IsNull(s1[1], "path") THEN Return(OutOfMemory(c), s1, Zero)
            ELSE Return(c, mco_free(Use(s1, "path"), "path"), Value(c.num_simulations))

mco_price_asian(c, st, a, num_obs, fail) ==
    IF num_obs = 0 THEN Return(c, st, Zero)
    ELSE IF InvalidEuropean(a) THEN Return(InvalidArgument(c), st, Zero)
    ELSE LET s1 == Alloc(st, "path", fail)
         IN IF IsNull(s1[1], "path") THEN Return(OutOfMemory(c), s1, Zero)
            ELSE Return(c, mco_free(Use(s1, "path"), "path"), Value(c.num_simulations))

mco_price_lookback(c, st, a, num_steps, fail) ==
    IF num_steps = 0 THEN Return(c, st, Zero)
    ELSE LET s1 == Alloc(st, "path", fail)
         IN IF IsNull(s1[1], "path") THEN Return(OutOfMemory(c), s1, Zero)
            ELSE Return(c, mco_free(Use(s1, "path"), "path"), Value(c.num_simulations))

mco_asian_cv_geometric(c, st, a, num_obs, fail) ==
    IF num_obs = 0 THEN Return(c, st, Zero)
    ELSE LET s1 == Alloc(st, "path", fail)
         IN IF IsNull(s1[1], "path") THEN Return(OutOfMemory(c), s1, Zero)
            ELSE Return(c, mco_free(Use(s1, "path"), "path"), Value(c.num_simulations))

\* The buffers of mco_lsm_american: those of the paths, those of the regression.
LsmPathBuffers == <<"paths", "cashflow", "exercise_time">>

LsmRegressionBuffers == <<"A", "Y", "itm_indices">>

\* What mco_lsm_american releases when an allocation of the regression
\* buffers failed, and a variant that releases the path buffers alone.
LsmPathBuffersOnly == LsmPathBuffers

LsmRegressionFailureFrees == LsmPathBuffers \o LsmRegressionBuffers

\* The value of the backward induction over n_paths paths of num_steps steps.
LsmValue(n_paths, num_steps) ==
    [kind |-> "value", sum |-> <<>>, paths |-> n_paths, steps |-> num_steps]

mco_lsm_american(c, st, a, num_steps, fail) ==
    IF num_steps = 0 THEN Return(c, st, Zero)
    ELSE LET s1 == Allocs(st, LsmPathBuffers, fail)
         IN IF AnyNull(s1, LsmPathBuffers)
            THEN Return(OutOfMemory(c), Frees(s1, LsmPathBuffers), Zero)
            ELSE LET s2 == Allocs(Uses(s1, LsmPathBuffers), LsmRegressionBuffers, fail)
                 IN IF AnyNull(s2, LsmRegressionBuffers)
                    THEN Return(OutOfMemory(c), Frees(s2, LsmRegressionFailureFrees), Zero)
                    ELSE Return(c,
                                Frees(Uses(s2, LsmPathBuffers \o LsmRegressionBuffers),
                                      LsmPathBuffers \o LsmRegressionBuffers),
                                LsmValue(c.num_simulations, num_steps))

\* Variant of mco_price_american: num_steps handed on as it is.
mco_price_american_no_default(c, st, a, num_steps, fail) ==
    IF InvalidEuropean(a) THEN Return(InvalidArgument(c), st, Zero)
    ELSE mco_lsm_american(c, st, a, num_steps, fail)

mco_price_american(c, st, a, num_steps, fail) ==
    IF InvalidEuropean(a) THEN Return(InvalidArgument(c), st, Zero)
    ELSE mco_lsm_american(c, st, a,
                          IF num_steps = 0 THEN MCO_DEFAULT_AMERICAN_STEPS ELSE num_steps, fail)

\* The six buffers mco_price_bermudan allocates first.
BermudanBuffers == <<"spot_at_ex", "cashflow", "path", "A", "Y", "itm_indices">>

\* exercise_times is "null", the caller's own array ("caller"), or the
\* buffer of an allocation site.
mco_price_bermudan(c, st, a, exercise_times, num_exercise, fail) ==
    IF exercise_times = "null" \/ num_exercise = 0 THEN Return(c, st, Zero)
    ELSE IF InvalidEuropean(a) THEN Return(InvalidArgument(c), st, Zero)
    ELSE LET s1 == Allocs(st, BermudanBuffers, fail)
         IN IF AnyNull(s1, BermudanBuffers)
            THEN Return(OutOfMemory(c), Frees(s1, BermudanBuffers), Zero)
            ELSE LET s2 == Alloc(s1, "ex_steps", fail)
                 IN IF IsNull(s2[1], "ex_steps")
                    THEN Return(OutOfMemory(c), Frees(s2, BermudanBuffers), Zero)
                    ELSE LET s3 == IF exercise_times = "caller" THEN s2
                                   ELSE Use(s2, exercise_times)
                         IN Return(c,
                                   Frees(Uses(s3, BermudanBuffers \o <<"ex_steps">>),
                                         BermudanBuffers \o <<"ex_steps">>),
                                   Value(c.num_simulations))

mco_price_bermudan_uniform(c, st, a, num_exercise, fail) ==
    IF num_exercise = 0 THEN Return(c, st, Zero)
    ELSE LET s1 == Alloc(st, "ex_times", fail)
         IN IF IsNull(s1[1], "ex_times") THEN Return(OutOfMemory(c), s1, Zero)
            ELSE LET r == mco_price_bermudan(c, Use(s1, "ex_times"), a, "ex_times",
                                             num_exercise, fail)
                 IN Return(r.ctx, mco_free(<<r.heap, r.faults>>, "ex_times"), r.ret)

\* The allocation sites of mco_lsm_american and of mco_price_bermudan.
LsmSites == {"paths", "cashflow", "exercise_time", "A", "Y", "itm_indices"}

BermudanSites == {"spot_at_ex", "cashflow", "path", "A", "Y", "itm_indices", "ex_steps"}

\* The call of pricer f with arguments a and n has returned r.
Returned(f, a, n, r) ==
    /\ fn' = f
    /\ args' = a
    /\ count' = n
    /\ rng_entry' = ctx.rng
    /\ ctx' = r.ctx
    /\ heap' = r.heap
    /\ faults' = r.faults
    /\ ret' = r.ret
    /\ pc' = "returned"
    /\ UNCHANGED dispatcher
    /\ UNCHANGED library

PriceDigital(a) ==
    /\ pc = "config"
    /\ ctx.num_simulations <= MaxSims
    /\ Returned("mco_price_digital", a, 0, mco_price_digital(ctx, <<heap, faults>>, a))

PriceBarrier(a, n, fail) ==
    /\ pc = "config"
    /\ ctx.num_simulations <= MaxSims
    /\ Returned("mco_price_barrier", a, n,
                mco_price_barrier(ctx, <<heap, faults>>, a, n, fail))

PriceAsian(a, n, fail) ==
    /\ pc = "config"
    /\ ctx.num_simulations <= MaxSims
    /\ Returned("mco_price_asian", a, n, mco_price_asian(ctx, <<heap, faults>>, a, n, fail))

PriceLookback(a, n, fail) ==
    /\ pc = "config"
    /\ ctx.num_simulations <= MaxSims
    /\ Returned("mco_price_lookback", a, n,
                mco_price_lookback(ctx, <<heap, faults>>, a, n, fail))

PriceAsianCv(a, n, fail) ==
    /\ pc = "config"
    /\ ctx.num_simulations <= MaxSims
    /\ Returned("mco_asian_cv_geometric", a, n,
                mco_asian_cv_geometric(ctx, <<heap, faults>>, a, n, fail))

PriceAmerican(a, n, fail) ==
    /\ pc = "config"
    /\ ctx.num_simulations <= MaxSims
    /\ Returned("mco_price_american", a, n,
                mco_price_american(ctx, <<heap, faults>>, a, n, fail))

PriceBermudan(a, exercise_times, n, fail) ==
    /\ pc = "config"
    /\ ctx.num_simulations <= MaxSims
    /\ Returned("mco_price_bermudan", a, n,
                mco_price_bermudan(ctx, <<heap, faults>>, a, exercise_times, n, fail))

PriceBermudanUniform(a, n, fail) ==
    /\ pc = "config"
    /\ ctx.num_simulations <= MaxSims
    /\ Returned("mco_price_bermudan_uniform", a, n,
                mco_price_bermudan_uniform(ctx, <<heap, faults>>, a, n, fail))

Next ==
    \/ \E n \in 0 .. MaxSims : mco_set_simulations(n)
    \/ \E seed \in Seeds : mco_set_seed(seed)
    \/ \E n \in 0 .. MaxThreads : mco_set_threads(n)
    \/ \E enabled \in {0, 1} : mco_set_antithetic(enabled)
    \/ \E a \in ArgSet : mco_price_european_invalid(a)
    \/ \E a \in ArgSet : mco_price_european_single(a)
    \/ \E a \in ArgSet : mco_price_european_parallel(a)
    \/ \E ok \in BOOLEAN : ParAllocWork(ok)
    \/ \E ok \in BOOLEAN : ParAllocThreads(ok)
    \/ ParInit
    \/ \E ok \in BOOLEAN : ParSpawn(ok)
    \/ ParFailJoin
    \/ ParFailFree
    \/ ParJoin
    \/ ParReduce
    \/ ParCleanup
    \/ \E w \in Threads : WorkerBegin(w)
    \/ \E w \in Threads : WorkerIter(w)
    \/ \E w \in Threads : WorkerEnd(w)
    \/ \E a \in ArgSet : PriceDigital(a)
    \/ \E a \in ArgSet, n \in 0 .. MaxCount, fail \in FailSets({"path"}) :
          PriceBarrier(a, n, fail)
    \/ \E a \in ArgSet, n \in 0 .. MaxCount, fail \in FailSets({"path"}) :
          PriceAsian(a, n, fail)
    \/ \E a \in ArgSet, n \in 0 .. MaxCount, fail \in FailSets({"path"}) :
          PriceLookback(a, n, fail)
    \/ \E a \in ArgSet, n \in 0 .. MaxCount, fail \in FailSets({"path"}) :
          PriceAsianCv(a, n, fail)
    \/ \E a \in ArgSet, n \in 0 .. MaxCount, fail \in FailSets(LsmSites) :
          PriceAmerican(a, n, fail)
    \/ \E a \in ArgSet, n \in 0 .. MaxCount, fail \in FailSets(BermudanSites),
          t \in {"null", "caller"} : PriceBermudan(a, t, n, fail)
    \/ \E a \in ArgSet, n \in 0 .. MaxCount, fail \in FailSets(BermudanSites \cup {"ex_times"}) :
          PriceBermudanUniform(a, n, fail)

Spec == Init /\ [][Next]_vars


(***************************************************************************)
(* Properties of the European pricer and of the dispatcher.                *)
(***************************************************************************)
\* The call has entered mco_parallel_european.
InParallel == pc # "config" /\ ~InvalidEuropean(args) /\ ctx.num_threads > 1

\* Every worker run from start to end on its unit, one after the other.
RECURSIVE RunWorkers(_, _, _)
RunWorkers(w, i, anti) ==
    IF i > Len(w) THEN <<>>
    ELSE <<IF anti # 0 THEN worker_european_antithetic(w[i]) ELSE worker_european_basic(w[i])>>
         \o RunWorkers(w, i + 1, anti)

\* The price as a function of the configuration alone: the context is seeded,
\* and the workers, if any, run one after the other.
EuropeanReference(seed, n, t, anti) ==
    CHOOSE r \in {IF t > 1 THEN Reduce(RunWorkers(mco_thread_work_init(t, rng, n).work, 1, anti))
                  ELSE IF anti # 0 THEN price_european_antithetic(rng, n)[2]
                  ELSE price_european_basic(rng, n)[2] :
                  rng \in {mco_rng_seed(seed)}} : TRUE

\* C1: the price a call returns is a function of the seed, the path count,
\* the thread count and the antithetic flag of the context it is made on,
\* whatever the interleaving of the workers was: two fresh contexts
\* configured alike return the same price.
C1_Deterministic ==
    (pc = "returned" /\ ret.kind = "price")
        => ret = EuropeanReference(ctx.seed, ctx.num_simulations, ctx.num_threads,
                                   ctx.antithetic_enabled)

C1_Witness ==
    /\ pc = "returned"
    /\ ret.kind = "price"
    /\ ctx.num_threads = MaxThreads
    /\ ctx.num_simulations = MaxSims
    /\ ctx.seed = Small(42)
    /\ Len(ret.sum) = MaxThreads

\* The units w partition [0, n): each index lies in exactly one range, and
\* no range leaves [0, n).
Partition(w, n) ==
    /\ \A i \in 1 .. Len(w) : 0 <= w[i].start_sim /\ w[i].start_sim <= w[i].end_sim
                              /\ w[i].end_sim <= n
    /\ \A k \in 0 .. (n - 1) :
          Cardinality({i \in 1 .. Len(w) : w[i].start_sim <= k /\ k < w[i].end_sim}) = 1

\* C2: from the initialisation of the work units until the reduction has
\* read them, their ranges [start_sim, end_sim) are pairwise disjoint and
\* cover exactly [0, num_simulations), with or without antithetic variates.
C2_Partition ==
    pc \in {"spawn", "join", "fail_join", "fail_free", "reduce", "cleanup"}
        => Partition(work, ctx.num_simulations)

\* C2 in the part that holds: the partition as mco_thread_work_init leaves
\* it, which stands as long as no antithetic worker has returned.
C2_PartitionInitial ==
    (/\ pc \in {"spawn", "join", "fail_join", "fail_free", "reduce", "cleanup"}
     /\ (worker_fn = "worker_european_basic" \/ \A w \in Threads : wk[w].pc # "done"))
        => Partition(work, ctx.num_simulations)

C2_Witness ==
    /\ pc = "reduce"
    /\ worker_fn = "worker_european_antithetic"
    /\ ctx.num_simulations = 3
    /\ ctx.num_threads = 2
    /\ work[2].start_sim = 2
    /\ work[2].end_sim = 4

\* The threads started, in order, began on rng, jump(rng), jump(jump(rng)), ...
RECURSIVE StartedOn(_, _)
StartedOn(rng, w) ==
    \/ w \notin created
    \/ /\ rng_start[w] = rng
       /\ \/ w + 1 \notin created
          \/ \A m \in {mco_rng_jump(rng)} : StartedOn(m, w + 1)

\* C3: worker i started on the master RNG state of the call's entry jumped
\* exactly i times, worker 0 on that state itself.
C3_WorkerStreams == pc = "returned" => StartedOn(rng_entry, 0)

C3_Witness ==
    /\ pc = "returned"
    /\ created = 0 .. (MaxThreads - 1)
    /\ rng_start[MaxThreads - 1] = mco_rng_jump(mco_rng_jump(mco_rng_seed(Small(42))))

\* C4: from the entry of a call with more than one thread to its return,
\* ctx.rng holds the four words it held at the entry.
C4_MasterUnchanged == (pc # "config" /\ ctx.num_threads > 1) => ctx.rng = rng_entry

C4_Witness ==
    /\ pc = "returned"
    /\ ctx.num_threads = MaxThreads
    /\ ret.kind = "price"
    /\ \A w \in created : work[w + 1].rng # rng_start[w]

\* C5: every thread works on the unit of its own index; the dispatcher reads
\* the units, and releases them, only when every thread it started has been
\* joined; no two threads were ever handed the same unit.
C5_NoDataRace ==
    /\ "data_race" \notin faults
    /\ \A w \in created : wk[w].arg = w
    /\ pc \in {"reduce", "cleanup"} => Unjoined = {}
    /\ heap["work"] = "freed" => Unjoined = {}

C5_Witness ==
    /\ pc = "cleanup"
    /\ created = 0 .. (MaxThreads - 1)
    /\ price.kind = "price"
    /\ \A w \in created : work[w + 1].partial_sum # <<>>

\* C6: never more threads than num_threads, each on a unit of its own; a
\* call that returns a price has started exactly num_threads of them; and at
\* every return each thread started has returned and has been joined.
C6_AllJoined ==
    /\ created \subseteq 0 .. (ctx.num_threads - 1)
    /\ \A w1, w2 \in created : w1 # w2 => wk[w1].arg # wk[w2].arg
    /\ (InParallel /\ pc \in {"join", "reduce", "cleanup"}) => created = 0 .. (ctx.num_threads - 1)
    /\ (InParallel /\ pc = "returned" /\ ret.kind = "price")
           => created = 0 .. (ctx.num_threads - 1)
    /\ pc = "returned" => \A w \in created : joins[w] >= 1 /\ wk[w].pc = "done"

C6_Witness ==
    /\ pc = "returned"
    /\ ret.kind = "price"
    /\ created = 0 .. (MaxThreads - 1)
    /\ \A w \in created : joins[w] = 1

\* C7: when pthread_create fails at index i, no thread beyond 0 .. i-1 is
\* ever started, and the call returns 0.0 with exactly the threads 0 .. i-1
\* joined, once each, both arrays released once, and last_error set to
\* MCO_ERR_THREAD.
C7_SpawnFailure ==
    /\ spawn_failed >= 0 => created = 0 .. (spawn_failed - 1)
    /\ (pc = "returned" /\ spawn_failed >= 0) =>
          /\ \A w \in Threads : joins[w] = IF w < spawn_failed THEN 1 ELSE 0
          /\ heap["work"] = "freed"
          /\ heap["threads"] = "freed"
          /\ "double_free" \notin faults
          /\ ctx.last_error = MCO_ERR_THREAD
          /\ ret = Zero

C7_Witness ==
    /\ pc = "returned"
    /\ spawn_failed = MaxThreads - 1
    /\ joins[0] = 1
    /\ joins[MaxThreads - 2] = 1

(***************************************************************************)
(* Properties of every pricing call.                                       *)
(***************************************************************************)
\* C8: no buffer is released twice or used after its release, and when a
\* pricing call returns, on whatever path, no buffer it allocated is still
\* live.
C8_Released ==
    /\ "double_free" \notin faults
    /\ "use_after_free" \notin faults
    /\ pc = "returned" => \A b \in Buffers : heap[b] # "live"

C8_Witness ==
    /\ pc = "returned"
    /\ fn = "mco_price_american"
    /\ heap["paths"] = "freed"
    /\ heap["A"] = "failed"
    /\ heap["Y"] = "freed"
    /\ heap["itm_indices"] = "freed"

\* C9: a pricing call in which an allocation failed returns 0.0 with
\* last_error set to MCO_ERR_NOMEM, and never goes through the null pointer.
C9_AllocFailure ==
    /\ "null_dereference" \notin faults
    /\ (pc = "returned" /\ \E b \in Buffers : heap[b] = "failed")
           => (ret = Zero /\ ctx.last_error = MCO_ERR_NOMEM)

C9_Witness ==
    /\ pc = "returned"
    /\ fn = "mco_price_bermudan_uniform"
    /\ heap["ex_steps"] = "failed"
    /\ heap["ex_times"] = "freed"
    /\ ctx.last_error = MCO_ERR_NOMEM

\* The pricers that take a number of steps, observations or exercise dates.
CountedPricers == {"mco_price_barrier", "mco_price_asian", "mco_price_lookback",
                   "mco_asian_cv_geometric", "mco_price_american", "mco_price_bermudan",
                   "mco_price_bermudan_uniform"}

\* C10: a pricer called with spot <= 0, strike <= 0, volatility < 0, time < 0
\* or a count of 0 returns 0.0 with last_error set to MCO_ERR_INVALID_ARG.
C10_InvalidRejected ==
    (pc = "returned" /\ (InvalidEuropean(args) \/ (fn \in CountedPricers /\ count = 0)))
        => (ret = Zero /\ ctx.last_error = MCO_ERR_INVALID_ARG)

\* C10 for the pricers that do check spot, strike, volatility and time, on a
\* count that is not 0 and with no allocation failing before the check.
C10_CheckingPricers ==
    (/\ pc = "returned"
     /\ InvalidEuropean(args)
     /\ heap["ex_times"] # "failed"
     /\ \/ fn \in {"mco_price_european", "mco_price_american"}
        \/ fn \in {"mco_price_asian", "mco_price_bermudan_uniform"} /\ count # 0)
        => (ret = Zero /\ ctx.last_error = MCO_ERR_INVALID_ARG)

C10_Witness ==
    /\ pc = "returned"
    /\ fn = "mco_price_digital"
    /\ args.spot = 0
    /\ ret.kind = "value"
    /\ ctx.last_error = MCO_OK

(***************************************************************************)
(* The context API called on a pointer that may be null, the version       *)
(* queries and the allocator hooks.  Each operation records in got what it *)
(* was called with and what it returned, and in touched the static         *)
(* variables it read or wrote.                                             *)
(***************************************************************************)
MaxArg == 2

MCO_VERSION_MAJOR == 2
MCO_VERSION_MINOR == 0
MCO_VERSION_PATCH == 0

\* The values of the enumeration mco_error.
ErrorCode(e) ==
    CASE e = MCO_OK -> 0
      [] e = MCO_ERR_NOMEM -> 1
      [] e = MCO_ERR_INVALID_ARG -> 2
      [] e = MCO_ERR_THREAD -> 3

\* A context pointer: NULL, or the address of ctx.
Null == "NULL"

Handles == {Null, "ctx"}

call == <<pc, fn, args, count, ret, heap, faults, rng_entry, dispatcher>>

rest == <<prng, ctxs, calls, done, sobol, barrier, kernels>>

\* The record of a call of op on c: value is what a read returned or what
\* a write was given, kept is whether the call left the context as it was.
Called(op, c, value, kept) ==
    [op |-> op, null |-> c = Null, value |-> value, kept |-> kept]

\* Variant of mco_get_threads: the default thread count for a null context.
mco_get_threads_default(c) ==
    /\ pc = "config"
    /\ got' = Called("mco_get_threads", c,
                     IF c = Null THEN MCO_DEFAULT_THREADS ELSE ctx.num_threads, TRUE)
    /\ UNCHANGED <<pricing, globals, touched, rest>>

mco_get_simulations(c) ==
    /\ pc = "config"
    /\ got' = Called("mco_get_simulations", c, IF c = Null THEN 0 ELSE ctx.num_simulations, TRUE)
    /\ UNCHANGED <<pricing, globals, touched, rest>>

mco_get_steps(c) ==
    /\ pc = "config"
    /\ got' = Called("mco_get_steps", c, IF c = Null THEN 0 ELSE ctx.num_steps, TRUE)
    /\ UNCHANGED <<pricing, globals, touched, rest>>

mco_get_seed(c) ==
    /\ pc = "config"
    /\ got' = Called("mco_get_seed", c, IF c = Null THEN Zero64 ELSE ctx.seed, TRUE)
    /\ UNCHANGED <<pricing, globals, touched, rest>>

mco_get_threads(c) ==
    /\ pc = "config"
    /\ got' = Called("mco_get_threads", c, IF c = Null THEN 0 ELSE ctx.num_threads, TRUE)
    /\ UNCHANGED <<pricing, globals, touched, rest>>

mco_get_antithetic(c) ==
    /\ pc = "config"
    /\ got' = Called("mco_get_antithetic", c, IF c = Null THEN 0 ELSE ctx.antithetic_enabled, TRUE)
    /\ UNCHANGED <<pricing, globals, touched, rest>>

mco_ctx_last_error(c) ==
    /\ pc = "config"
    /\ got' = Called("mco_ctx_last_error", c,
                     IF c = Null THEN ErrorCode(MCO_ERR_INVALID_ARG)
                     ELSE ErrorCode(ctx.last_error), TRUE)
    /\ UNCHANGED <<pricing, globals, touched, rest>>

\* The setters called on c.
mco_set_simulations_on(c, n) ==
    /\ pc = "config"
    /\ ctx' = IF c = Null THEN ctx ELSE SetSimulations(ctx, n)
    /\ got' = Called("mco_set_simulations", c, n, ctx' = ctx)
    /\ UNCHANGED <<call, globals, touched, rest>>

mco_set_steps_on(c, n) ==
    /\ pc = "config"
    /\ ctx' = IF c = Null THEN ctx ELSE SetSteps(ctx, n)
    /\ got' = Called("mco_set_steps", c, n, ctx' = ctx)
    /\ UNCHANGED <<call, globals, touched, rest>>

mco_set_seed_on(c, seed) ==
    /\ pc = "config"
    /\ ctx' = IF c = Null THEN ctx ELSE SetSeed(ctx, seed)
    /\ got' = Called("mco_set_seed", c, seed, ctx' = ctx)
    /\ UNCHANGED <<call, globals, touched, rest>>

mco_set_threads_on(c, n) ==
    /\ pc = "config"
    /\ ctx' = IF c = Null THEN ctx ELSE SetThreads(ctx, n)
    /\ got' = Called("mco_set_threads", c, n, ctx' = ctx)
    /\ UNCHANGED <<call, globals, touched, rest>>

mco_set_antithetic_on(c, enabled) ==
    /\ pc = "config"
    /\ ctx' = IF c = Null THEN ctx ELSE SetAntithetic(ctx, enabled)
    /\ got' = Called("mco_set_antithetic", c, enabled, ctx' = ctx)
    /\ UNCHANGED <<call, globals, touched, rest>>

\* The digits mco_version_string writes for one component of the version.
Digit == <<"0", "1", "2", "3", "4", "5", "6", "7", "8", "9">>

VersionDigits(n) ==
    (IF n >= 10 THEN Digit[((n \div 10) % 10) + 1] ELSE "") \o Digit[(n % 10) + 1]

VersionString ==
    "mcoptions " \o VersionDigits(MCO_VERSION_MAJOR) \o "." \o VersionDigits(MCO_VERSION_MINOR)
                 \o "." \o VersionDigits(MCO_VERSION_PATCH)

\* mco_version_string: version_buf is built on the first call and returned.
mco_version_string ==
    /\ pc = "config"
    /\ globals' = IF globals.version_buf = ""
                  THEN [globals EXCEPT !.version_buf = VersionString]
                  ELSE globals
    /\ touched' = touched \cup {"version_buf"}
    /\ got' = Called("mco_version_string", "none", globals'.version_buf, TRUE)
    /\ UNCHANGED <<pricing, rest>>

\* mco_version: (major << 16) | (minor << 8) | patch
mco_version ==
    /\ pc = "config"
    /\ got' = Called("mco_version", "none",
                     MCO_VERSION_MAJOR * 65536 + MCO_VERSION_MINOR * 256 + MCO_VERSION_PATCH, TRUE)
    /\ UNCHANGED <<pricing, globals, touched, rest>>

\* The hooks a host hands to mco_set_allocators: NULL for "keep the default".
AllocatorArgs ==
    {<<Null, Null, Null>>, <<"host_malloc", Null, "host_free">>,
     <<"host_malloc", "host_realloc", "host_free">>}

mco_set_allocators(f_malloc, f_realloc, f_free) ==
    /\ pc = "config"
    /\ globals' = [globals EXCEPT !.g_allocators =
                      [f_malloc |-> IF f_malloc # Null THEN f_malloc ELSE "malloc",
                       f_realloc |-> IF f_realloc # Null THEN f_realloc ELSE "realloc",
                       f_free |-> IF f_free # Null THEN f_free ELSE "free"]]
    /\ touched' = touched \cup {"g_allocators"}
    /\ got' = Called("mco_set_allocators", "none", <<f_malloc, f_realloc, f_free>>, TRUE)
    /\ UNCHANGED <<pricing, rest>>

\* mco_is_compatible: mco_version() >> 16 against MCO_VERSION_MAJOR
mco_is_compatible ==
    /\ pc = "config"
    /\ got' = Called("mco_is_compatible", "none",
                     IF (MCO_VERSION_MAJOR * 65536 + MCO_VERSION_MINOR * 256 + MCO_VERSION_PATCH)
                            \div 65536 = MCO_VERSION_MAJOR
                     THEN 1 ELSE 0, TRUE)
    /\ UNCHANGED <<pricing, globals, touched, rest>>

\* mco_malloc, mco_calloc, mco_realloc: the call goes to the hook installed.
mco_malloc ==
    /\ pc = "config"
    /\ touched' = touched \cup {"g_allocators"}
    /\ got' = Called("mco_malloc", "none", globals.g_allocators.f_malloc, TRUE)
    /\ UNCHANGED <<pricing, globals, rest>>

mco_calloc ==
    /\ pc = "config"
    /\ touched' = touched \cup {"g_allocators"}
    /\ got' = Called("mco_calloc", "none", globals.g_allocators.f_malloc, TRUE)
    /\ UNCHANGED <<pricing, globals, rest>>

mco_realloc ==
    /\ pc = "config"
    /\ touched' = touched \cup {"g_allocators"}
    /\ got' = Called("mco_realloc", "none", globals.g_allocators.f_realloc, TRUE)
    /\ UNCHANGED <<pricing, globals, rest>>

\* mco_free(ptr): a null ptr returns before the hook is read.
mco_free_ptr(ptr) ==
    /\ pc = "config"
    /\ touched' = IF ptr # Null THEN touched \cup {"g_allocators"} ELSE touched
    /\ got' = Called("mco_free", "none",
                     IF ptr # Null THEN globals.g_allocators.f_free ELSE "none", TRUE)
    /\ UNCHANGED <<pricing, globals, rest>>

\* mco_strdup(str): a null str returns before the hook is read.
mco_strdup(str) ==
    /\ pc = "config"
    /\ touched' = IF str # Null THEN touched \cup {"g_allocators"} ELSE touched
    /\ got' = Called("mco_strdup", "none",
                     IF str # Null THEN globals.g_allocators.f_malloc ELSE "none", TRUE)
    /\ UNCHANGED <<pricing, globals, rest>>

ApiNext ==
    \/ \E c \in Handles : mco_get_simulations(c)
    \/ \E c \in Handles : mco_get_steps(c)
    \/ \E c \in Handles : mco_get_seed(c)
    \/ \E c \in Handles : mco_get_threads(c)
    \/ \E c \in Handles : mco_get_antithetic(c)
    \/ \E c \in Handles : mco_ctx_last_error(c)
    \/ \E c \in Handles, n \in 0 .. MaxArg : mco_set_simulations_on(c, n)
    \/ \E c \in Handles, n \in 0 .. MaxArg : mco_set_steps_on(c, n)
    \/ \E c \in Handles, seed \in Seeds : mco_set_seed_on(c, seed)
    \/ \E c \in Handles, n \in 0 .. MaxArg : mco_set_threads_on(c, n)
    \/ \E c \in Handles, enabled \in {0, 1} : mco_set_antithetic_on(c, enabled)

ApiSpec == Init /\ [][ApiNext]_vars

StaticsNext ==
    \/ \E c \in Handles : mco_get_simulations(c)
    \/ \E c \in Handles : mco_get_steps(c)
    \/ \E c \in Handles : mco_get_seed(c)
    \/ \E c \in Handles : mco_get_threads(c)
    \/ \E c \in Handles : mco_get_antithetic(c)
    \/ \E c \in Handles : mco_ctx_last_error(c)
    \/ \E str \in {Null, "text"} : mco_strdup(str)
    \/ mco_version_string
    \/ mco_version
    \/ mco_is_compatible
    \/ \E f \in AllocatorArgs : mco_set_allocators(f[1], f[2], f[3])
    \/ mco_malloc
    \/ mco_calloc
    \/ mco_realloc
    \/ \E ptr \in {Null, "block"} : mco_free_ptr(ptr)

StaticsSpec == Init /\ [][StaticsNext]_vars

Getters ==
    {"mco_get_simulations", "mco_get_steps", "mco_get_seed", "mco_get_threads",
     "mco_get_antithetic"}

\* C11 as stated: every read of a null context, the last-error query
\* included, returns zero.
C11_NullReadsZero ==
    /\ (got.null /\ got.op \in Getters \ {"mco_get_seed"}) => got.value = 0
    /\ (got.null /\ got.op = "mco_get_seed") => got.value = Zero64
    /\ (got.null /\ got.op = "mco_ctx_last_error") => got.value = 0

\* C11, amended: on a null context the five getters return zero and the
\* last-error query returns the invalid-argument code.
C11_NullReads ==
    /\ (got.null /\ got.op \in Getters \ {"mco_get_seed"}) => got.value = 0
    /\ (got.null /\ got.op = "mco_get_seed") => got.value = Zero64
    /\ (got.null /\ got.op = "mco_ctx_last_error") => got.value = ErrorCode(MCO_ERR_INVALID_ARG)

C11_Witness ==
    /\ got.null
    /\ got.op = "mco_ctx_last_error"
    /\ ctx.last_error = MCO_OK

\* C12: whatever setters were called, with whatever arguments, the path
\* count, the step count and the thread count of the context are at least 1,
\* and a path-count or step-count setter given 0 has left the stored value
\* as it was.
C12_CountsPositive ==
    /\ ctx.num_simulations >= 1
    /\ ctx.num_steps >= 1
    /\ ctx.num_threads >= 1
    /\ (got.op \in {"mco_set_simulations", "mco_set_steps"} /\ got.value = 0) => got.kept

C12_Witness ==
    /\ got.op = "mco_set_steps"
    /\ ~got.null
    /\ got.value = 0
    /\ ctx.num_steps = 1
    /\ ctx.num_simulations = 2
    /\ ctx.num_threads = 1

\* C14 as stated: g_allocators is the only static variable an operation of
\* the library reads or writes.
C14_OnlyAllocatorTable == touched \subseteq {"g_allocators"}

C14_Witness ==
    /\ got.op = "mco_version_string"
    /\ globals.version_buf = VersionString
    /\ "version_buf" \in touched

(***************************************************************************)
(* Two contexts used side by side, each by its own thread: setters and     *)
(* single-threaded European pricing calls on one interleave, pass by pass  *)
(* of the pricing loop, with those on the other.  done[k] lists the        *)
(* operations completed on context k with what each returned.              *)
(***************************************************************************)
MaxOps == 3

Contexts == {1, 2}

NoCall == [pc |-> "idle", args |-> NoArgs, i |-> 0, n |-> 0, sum |-> <<>>]

\* Argument tuples of the pricing calls: every argument in range, or none.
TwoArgs == {a \in ArgSet : Cardinality(OutOfRange(a)) \in {0, 4}}

\* Each context is created and given a path count the pricing loops can be
\* followed through.
TwoInit ==
    /\ PricingInit
    /\ ApiIdle /\ RngIdle /\ SobolIdle /\ BarrierIdle /\ KernelsIdle
    /\ ctxs = [k \in Contexts |-> SetSimulations(mco_ctx_new, MaxSims - 1)]
    /\ calls = [k \in Contexts |-> NoCall]
    /\ done = [k \in Contexts |-> <<[op |-> "mco_set_simulations", arg |-> MaxSims - 1, ret |-> NoReturn]>>]

two_rest == <<pricing, got, globals, touched, prng, sobol, barrier, kernels>>

Completed(k, op, arg, r) == done' = [done EXCEPT ![k] = Append(@, [op |-> op, arg |-> arg, ret |-> r])]

\* Variant of RngOwner: one generator shared by all contexts.
RngOwnerFirst(k) == 1

\* The context whose generator a pricing call on context k draws from:
\* price_european_basic and price_european_antithetic pass &ctx->rng.
RngOwner(k) == k

TwoSetSimulations(k, n) ==
    /\ calls[k].pc = "idle"
    /\ Len(done[k]) < MaxOps
    /\ ctxs' = [ctxs EXCEPT ![k] = SetSimulations(@, n)]
    /\ Completed(k, "mco_set_simulations", n, NoReturn)
    /\ UNCHANGED <<calls, two_rest>>

TwoSetSeed(k, seed) ==
    /\ calls[k].pc = "idle"
    /\ Len(done[k]) < MaxOps
    /\ ctxs' = [ctxs EXCEPT ![k] = SetSeed(@, seed)]
    /\ Completed(k, "mco_set_seed", seed, NoReturn)
    /\ UNCHANGED <<calls, two_rest>>

TwoSetAntithetic(k, enabled) ==
    /\ calls[k].pc = "idle"
    /\ Len(done[k]) < MaxOps
    /\ ctxs' = [ctxs EXCEPT ![k] = SetAntithetic(@, enabled)]
    /\ Completed(k, "mco_set_antithetic", enabled, NoReturn)
    /\ UNCHANGED <<calls, two_rest>>

\* mco_price_european on context k returns at the argument check.
TwoPriceInvalid(k, a) ==
    /\ calls[k].pc = "idle"
    /\ Len(done[k]) < MaxOps
    /\ InvalidEuropean(a)
    /\ ctxs' = [ctxs EXCEPT ![k] = InvalidArgument(@)]
    /\ Completed(k, "mco_price_european", a, Zero)
    /\ UNCHANGED <<calls, two_rest>>

\* mco_price_european on context k enters the loop of price_european_basic
\* or of mco_antithetic_european_sum.
TwoPriceBegin(k, a) ==
    /\ calls[k].pc = "idle"
    /\ Len(done[k]) < MaxOps
    /\ ~InvalidEuropean(a)
    /\ ctxs[k].num_simulations <= MaxSims
    /\ ctxs[k].num_threads <= 1
    /\ calls' = [calls EXCEPT ![k] =
                    [pc |-> "loop", args |-> a, i |-> 0,
                     n |-> IF ctxs[k].antithetic_enabled # 0
                           THEN NumPairs(ctxs[k].num_simulations)
                           ELSE ctxs[k].num_simulations,
                     sum |-> <<>>]]
    /\ UNCHANGED <<ctxs, done, two_rest>>

\* One pass of the loop.
TwoPriceIter(k) ==
    /\ calls[k].pc = "loop"
    /\ calls[k].i < calls[k].n
    /\ LET st == IF ctxs[k].antithetic_enabled # 0
                 THEN AntitheticIter(<<ctxs[RngOwner(k)].rng, calls[k].sum>>)
                 ELSE BasicIter(<<ctxs[RngOwner(k)].rng, calls[k].sum>>)
       IN /\ ctxs' = [ctxs EXCEPT ![RngOwner(k)].rng = st[1]]
          /\ calls' = [calls EXCEPT ![k].sum = st[2], ![k].i = @ + 1]
    /\ UNCHANGED <<done, two_rest>>

\* The loop is over: discount * (sum / n) is returned.
TwoPriceEnd(k) ==
    /\ calls[k].pc = "loop"
    /\ calls[k].i >= calls[k].n
    /\ Completed(k, "mco_price_european", calls[k].args,
                 Price(calls[k].sum,
                       IF ctxs[k].antithetic_enabled # 0 THEN 2 * calls[k].n ELSE calls[k].n))
    /\ calls' = [calls EXCEPT ![k] = NoCall]
    /\ UNCHANGED <<ctxs, two_rest>>

TwoNext ==
    \/ \E k \in Contexts, n \in 1 .. MaxSims : TwoSetSimulations(k, n)
    \/ \E k \in Contexts, seed \in Seeds : TwoSetSeed(k, seed)
    \/ \E k \in Contexts, enabled \in {0, 1} : TwoSetAntithetic(k, enabled)
    \/ \E k \in Contexts, a \in TwoArgs : TwoPriceInvalid(k, a)
    \/ \E k \in Contexts, a \in TwoArgs : TwoPriceBegin(k, a)
    \/ \E k \in Contexts : TwoPriceIter(k)
    \/ \E k \in Contexts : TwoPriceEnd(k)

TwoSpec == TwoInit /\ [][TwoNext]_vars

\* One operation run on a context by itself: the context it leaves and
\* what it returns.
Alone(c, o) ==
    CASE o.op = "mco_set_simulations" -> <<SetSimulations(c, o.arg), NoReturn>>
      [] o.op = "mco_set_seed" -> <<SetSeed(c, o.arg), NoReturn>>
      [] o.op = "mco_set_antithetic" -> <<SetAntithetic(c, o.arg), NoReturn>>
      [] o.op = "mco_price_european" ->
            IF InvalidEuropean(o.arg) THEN <<InvalidArgument(c), Zero>>
            ELSE LET r == IF c.antithetic_enabled # 0
                          THEN price_european_antithetic(c.rng, c.num_simulations)
                          ELSE price_european_basic(c.rng, c.num_simulations)
                 IN <<[c EXCEPT !.rng = r[1]], r[2]>>

\* The operations ops[i..] run in order on a context by itself: whether
\* each returns what ops records, and the context left at the end.
RECURSIVE RunAlone(_, _, _)
RunAlone(c, ops, i) ==
    IF i > Len(ops) THEN [same |-> TRUE, ctx |-> c]
    ELSE CHOOSE r \in UNION {{[same |-> m[2] = ops[i].ret /\ t.same, ctx |-> t.ctx] :
                                 t \in {RunAlone(m[1], ops, i + 1)}} :
                               m \in {Alone(c, ops[i])}} : TRUE

\* C13: whenever no call is in progress on a context, its state and the
\* values its operations returned are those of running its own operations
\* alone on a new context, whatever was done on the other context and
\* however the two threads' steps interleaved.
C13_Independent ==
    \A k \in Contexts :
        calls[k].pc = "idle" =>
            \A r \in {RunAlone(mco_ctx_new, done[k], 1)} : r.same /\ r.ctx = ctxs[k]

C13_Witness ==
    /\ calls[1].pc = "idle"
    /\ calls[2].pc = "loop"
    /\ calls[2].i = 1
    /\ Len(done[1]) = MaxOps
    /\ done[1][MaxOps].op = "mco_price_european"
    /\ done[1][MaxOps].ret.kind = "price"
    /\ Len(done[2]) = 2
    /\ done[2][2].op = "mco_set_seed"

(***************************************************************************)
(* The generator used on its own: mco_rng_seed, then mco_rng_next,         *)
(* mco_rng_uniform, mco_rng_normal and mco_rng_jump in any order.          *)
(***************************************************************************)
MaxDraws == 3

\* 2^64 - 1
AllOnes == <<15, 15, 15, 15, 15, 15, 15, 15, 15, 15, 15, 15, 15, 15, 15, 15>>

RngSeeds == {Zero64, Small(1), Small(42), MCO_DEFAULT_SEED, AllOnes}

rng_rest == <<pricing, got, globals, touched, ctxs, calls, done, sobol, barrier, kernels>>

Generator(s, ops, last, out) == [s |-> s, ops |-> ops, last |-> last, out |-> out]

RngInit ==
    /\ PricingInit
    /\ ApiIdle /\ TwoIdle /\ SobolIdle /\ BarrierIdle /\ KernelsIdle
    /\ \E seed \in RngSeeds : prng = Generator(mco_rng_seed(seed), 0, "mco_rng_seed", seed)

RngNext ==
    /\ prng.ops < MaxDraws
    /\ prng' = Generator(mco_rng_next_state(prng.s), prng.ops + 1, "mco_rng_next",
                         mco_rng_next_result(prng.s))
    /\ UNCHANGED rng_rest

RngUniform ==
    /\ prng.ops < MaxDraws
    /\ prng' = Generator(mco_rng_next_state(prng.s), prng.ops + 1, "mco_rng_uniform",
                         mco_rng_uniform_value(prng.s))
    /\ UNCHANGED rng_rest

RngNormal ==
    /\ prng.ops < MaxDraws
    /\ prng' = Generator(mco_rng_normal_state(prng.s), prng.ops + 1, "mco_rng_normal",
                         mco_rng_normal_value(prng.s))
    /\ UNCHANGED rng_rest

RngJump ==
    /\ prng.ops < MaxDraws
    /\ prng' = Generator(mco_rng_jump(prng.s), prng.ops + 1, "mco_rng_jump", <<>>)
    /\ UNCHANGED rng_rest

RngStep == RngNext \/ RngUniform \/ RngNormal \/ RngJump

RngSpec == RngInit /\ [][RngStep]_vars

\* C15: after mco_rng_seed with any seed and any sequence of next, uniform,
\* normal and jump operations, the four state words are not all zero.
C15_NeverAllZero == prng.s # <<>> => ~AllZero(prng.s)

C15_Witness ==
    /\ prng.ops = MaxDraws
    /\ prng.last = "mco_rng_jump"
    /\ \E seed \in RngSeeds :
          /\ seed = Zero64
          /\ prng.s = mco_rng_jump(mco_rng_normal_state(mco_rng_next_state(mco_rng_seed(seed))))

(***************************************************************************)
(* The divisor of the antithetic mean.                                     *)
(***************************************************************************)
\* The pairs accumulated into a sum: each pair adds the payoff of Z and the
\* payoff of -Z, so the pairs are the addends taken with the sign -1.
PairsIn(sum) == Cardinality({i \in DOMAIN sum : sum[i].sign = -1})

RECURSIVE PairsOfWorkers(_, _)
PairsOfWorkers(sums, i) ==
    IF i > Len(sums) THEN 0 ELSE PairsIn(sums[i]) + PairsOfWorkers(sums, i + 1)

AntitheticPriced ==
    /\ pc = "returned"
    /\ fn = "mco_price_european"
    /\ ret.kind = "price"
    /\ ctx.antithetic_enabled # 0

\* C16: with antithetic variates enabled, the divisor of the final mean is
\* exactly twice the number of pairs accumulated: of the one loop on the
\* single-threaded path, of all workers together on the multi-threaded one.
C16_DivisorTwicePairs ==
    AntitheticPriced =>
        IF ctx.num_threads <= 1
        THEN /\ ret.paths = 2 * PairsIn(ret.sum)
             /\ Len(ret.sum) = ret.paths
        ELSE /\ ret.paths = 2 * PairsOfWorkers(ret.sum, 1)
             /\ \A w \in 1 .. Len(ret.sum) : Len(ret.sum[w]) = 2 * wk[w - 1].n

\* Two workers, three simulations: one unit holds a single simulation and
\* its worker still accumulates a whole pair.
C16_Witness ==
    /\ AntitheticPriced
    /\ ctx.num_threads = 2
    /\ ctx.num_simulations = 3
    /\ ret.paths = 4
    /\ PairsOfWorkers(ret.sum, 1) = 2

(***************************************************************************)
(* mco_price_barrier carried out path by path.  The path is followed in    *)
(* units of log-price: a vertex is an integer level, the spot being level  *)
(* 0, and a step moves it by the sign of the normal drawn (the sign of     *)
(* cos(2 pi u2)) times one unit, or two when u1 >= 1/2.  In these units    *)
(* log(s / h) is a difference of levels, and the probability returned by   *)
(* bridge_hit_prob is counted in eighths, the resolution at which the      *)
(* uniform is compared with it.                                            *)
(***************************************************************************)
MaxPaths == 2
MaxBarrierSteps == 2

BarrierStyles == {"MCO_BARRIER_DOWN_IN", "MCO_BARRIER_DOWN_OUT", "MCO_BARRIER_UP_IN",
                  "MCO_BARRIER_UP_OUT"}

BarrierLevels == {-2, -1, 1}

Rebates == {0, 5}

barrier_rest == <<pricing, got, globals, touched, prng, ctxs, calls, done, sobol, kernels>>

\* The three leading bits of the 53-bit integer of a uniform: u in eighths.
TopEighth(u) == Nib(u, 13) * 4 + Nib(u, 12) \div 4

\* mco_gbm_step in units of log-price, z being <<u1, u2>>.
GbmLevelStep(level, z) ==
    LET q == TopEighth(z[2]) \div 2
        size == IF TopEighth(z[1]) >= 4 THEN 2 ELSE 1
    IN IF q \in {0, 3} THEN level + size ELSE level - size

\* mco_gbm_simulate_path from vertex i on: <<rng, path>>, path[1] the spot.
RECURSIVE mco_gbm_simulate_path(_, _, _)
mco_gbm_simulate_path(st, i, num_steps) ==
    IF i < num_steps
    THEN CHOOSE r \in {mco_gbm_simulate_path(m, i + 1, num_steps) :
               m \in {<<mco_rng_normal_state(st[1]),
                        Append(st[2], GbmLevelStep(st[2][Len(st[2])],
                                                   mco_rng_normal_value(st[1])))>>}} : TRUE
    ELSE st

\* The discrete check of one segment.
DiscreteHit(s1, s2, h, is_up) ==
    IF is_up THEN s1 >= h \/ s2 >= h ELSE s1 <= h \/ s2 <= h

\* exp(-2 * log1 * log2 / var) in eighths, var being 2 / ln 2 units.
BridgeEighths(product) ==
    IF product = 1 THEN 4 ELSE IF product = 2 THEN 2 ELSE IF product = 3 THEN 1 ELSE 0

bridge_hit_prob(s1, s2, h, is_up) ==
    IF is_up
    THEN IF s1 >= h \/ s2 >= h THEN 8 ELSE BridgeEighths((h - s1) * (h - s2))
    ELSE IF s1 <= h \/ s2 <= h THEN 8 ELSE BridgeEighths((s1 - h) * (s2 - h))

\* The loop over the segments from segment j on: <<rng, barrier_hit>>.  The
\* loop is left at the first hit, before any further uniform is drawn.
RECURSIVE BarrierCheck(_, _, _, _, _, _)
BarrierCheck(rng, path, j, num_steps, h, is_up) ==
    IF j > num_steps THEN <<rng, FALSE>>
    ELSE IF DiscreteHit(path[j], path[j + 1], h, is_up) THEN <<rng, TRUE>>
    ELSE IF TopEighth(mco_rng_uniform_value(rng)) < bridge_hit_prob(path[j], path[j + 1], h, is_up)
         THEN <<mco_rng_next_state(rng), TRUE>>
         ELSE CHOOSE r \in {BarrierCheck(m, path, j + 1, num_steps, h, is_up) :
                              m \in {mco_rng_next_state(rng)}} : TRUE

\* Addends of sum_payoff: mco_payoff(terminal, strike, option_type), the
\* rebate, or the 0.0 payoff starts from.
VanillaPayoff(terminal) == [kind |-> "payoff", terminal |-> terminal]
RebatePaid(rebate) == [kind |-> "rebate", amount |-> rebate]
NoPayoff == [kind |-> "rebate", amount |-> 0]

\* Variant of KnockOutPayoff: the payoff whether or not the barrier was hit.
KnockOutPayoffAlways(barrier_hit, terminal, rebate) == VanillaPayoff(terminal)

KnockInPayoff(barrier_hit, terminal) ==
    IF barrier_hit THEN VanillaPayoff(terminal) ELSE NoPayoff

KnockOutPayoff(barrier_hit, terminal, rebate) ==
    IF ~barrier_hit THEN VanillaPayoff(terminal) ELSE RebatePaid(rebate)

IsUp(style) == style \in {"MCO_BARRIER_UP_IN", "MCO_BARRIER_UP_OUT"}
IsKnockIn(style) == style \in {"MCO_BARRIER_DOWN_IN", "MCO_BARRIER_UP_IN"}

NoResult == [kind |-> "none", sum |-> <<>>, paths |-> 0, hits |-> <<>>, terminals |-> <<>>]
ZeroResult == [kind |-> "zero", sum |-> <<>>, paths |-> 0, hits |-> <<>>, terminals |-> <<>>]

\* A context seeded with 42 and set to n_paths simulations, and the
\* arguments of the calls made on it.
BarrierInit ==
    /\ PricingInit
    /\ ApiIdle /\ RngIdle /\ TwoIdle /\ SobolIdle /\ KernelsIdle
    /\ \E n_paths \in 1 .. MaxPaths, num_steps \in 0 .. MaxBarrierSteps,
          h \in BarrierLevels, rebate \in Rebates :
          barrier = [NoBarrier EXCEPT
                        !.pc = "idle",
                        !.inputs = [rng |-> mco_rng_seed(Small(42)), n_paths |-> n_paths,
                                    num_steps |-> num_steps, barrier |-> h,
                                    rebate |-> rebate],
                        !.results = [s \in BarrierStyles |-> NoResult]]

\* The call up to the loop over the paths: the early return for num_steps
\* of 0, the allocation of the path buffer, the copy of ctx->rng.
BarrierBegin(style, ok) ==
    /\ barrier.pc = "idle"
    /\ barrier.results[style] = NoResult
    /\ barrier' =
          IF barrier.inputs.num_steps = 0
          THEN [barrier EXCEPT !.results[style] = ZeroResult]
          ELSE IF ~ok
          THEN [barrier EXCEPT !.results[style] = ZeroResult, !.last_error = MCO_ERR_NOMEM]
          ELSE [barrier EXCEPT !.pc = "loop", !.style = style, !.rng = barrier.inputs.rng,
                               !.i = 0, !.sum = <<>>, !.hits = <<>>, !.terminals = <<>>]
    /\ UNCHANGED barrier_rest

\* One pass of the loop over the paths.
BarrierPath ==
    /\ barrier.pc = "loop"
    /\ barrier.i < barrier.inputs.n_paths
    /\ LET num_steps == barrier.inputs.num_steps
           sim == mco_gbm_simulate_path(<<barrier.rng, <<0>>>>, 0, num_steps)
           chk == BarrierCheck(sim[1], sim[2], 1, num_steps, barrier.inputs.barrier,
                               IsUp(barrier.style))
           terminal == sim[2][num_steps + 1]
           payoff == IF IsKnockIn(barrier.style) THEN KnockInPayoff(chk[2], terminal)
                     ELSE KnockOutPayoff(chk[2], terminal, barrier.inputs.rebate)
       IN barrier' = [barrier EXCEPT !.rng = chk[1], !.i = @ + 1,
                                     !.sum = Append(@, payoff),
                                     !.hits = Append(@, chk[2]),
                                     !.terminals = Append(@, terminal)]
    /\ UNCHANGED barrier_rest

\* mco_free(path); return model.discount * (sum_payoff / n_paths)
BarrierEnd ==
    /\ barrier.pc = "loop"
    /\ barrier.i >= barrier.inputs.n_paths
    /\ barrier' = [barrier EXCEPT
                      !.pc = "idle",
                      !.results[barrier.style] =
                          [kind |-> "price", sum |-> barrier.sum,
                           paths |-> barrier.inputs.n_paths, hits |-> barrier.hits,
                           terminals |-> barrier.terminals]]
    /\ UNCHANGED barrier_rest

BarrierNext ==
    \/ \E style \in BarrierStyles, ok \in BOOLEAN : BarrierBegin(style, ok)
    \/ BarrierPath
    \/ BarrierEnd

BarrierSpec == BarrierInit /\ [][BarrierNext]_vars

BothDownPriced ==
    /\ barrier.pc # "off"
    /\ barrier.inputs.rebate = 0
    /\ barrier.results["MCO_BARRIER_DOWN_IN"].kind = "price"
    /\ barrier.results["MCO_BARRIER_DOWN_OUT"].kind = "price"

\* C17: from the same master RNG state and with the same parameters and a
\* rebate of 0, the down-in and the down-out call simulate the same paths,
\* and every path adds its vanilla payoff to exactly one of the two sums, to
\* the knock-in sum iff a segment was hit and to the knock-out sum iff none
\* was, the other sum receiving 0; hence down-in + down-out is the
\* discounted mean of the vanilla payoffs of these paths.
C17_InOutParity ==
    BothDownPriced =>
        LET in == barrier.results["MCO_BARRIER_DOWN_IN"]
            out == barrier.results["MCO_BARRIER_DOWN_OUT"]
        IN /\ in.paths = out.paths
           /\ in.terminals = out.terminals
           /\ in.hits = out.hits
           /\ \A i \in 1 .. in.paths :
                 /\ in.sum[i] = (IF in.hits[i] THEN VanillaPayoff(in.terminals[i]) ELSE NoPayoff)
                 /\ out.sum[i] = (IF in.hits[i] THEN NoPayoff ELSE VanillaPayoff(in.terminals[i]))

\* Both prices computed over two paths of two steps, one path hitting the
\* barrier and the other not.
C17_Witness ==
    /\ BothDownPriced
    /\ barrier.inputs.num_steps = 2
    /\ barrier.results["MCO_BARRIER_DOWN_IN"].hits = <<TRUE, FALSE>>

(***************************************************************************)
(* The Sobol generator (struct mco_sobol).  A uint32_t is a word whose     *)
(* eight leading digits are 0; point[d] is x[d] scaled by 2^-32, which a   *)
(* double holds exactly, and is kept as the word x[d].                     *)
(***************************************************************************)
MCO_SOBOL_MAX_DIM == 1024
MCO_SOBOL_BITS == 32

MaxSobolOps == 3
MaxSkip == 3

\* The dimension counts handed to mco_sobol_init: rejected, the first
\* dimension alone, tabulated dimensions, and one past the table.
SobolDims == {0, 1, 2, 3, 41, MCO_SOBOL_MAX_DIM + 1}

sobol_rest == <<pricing, got, globals, touched, prng, ctxs, calls, done, barrier, kernels>>

Mask32(w) == <<0, 0, 0, 0, 0, 0, 0, 0, w[9], w[10], w[11], w[12], w[13], w[14], w[15], w[16]>>

\* (uint32_t)(a << k) and a * b modulo 2^32.
Shl32(a, k) == IF k = 0 THEN a ELSE Mask32(Shl(a, k))

Mul32(a, b) == Mask32(Mul(a, b))

\* sobol_poly[]: degree and coefficients, two entries per dimension.
sobol_poly ==
    <<1, 0, 2, 1, 3, 1, 3, 2, 4, 1, 4, 4, 5, 2, 5, 4, 5, 7, 5, 11,
      5, 13, 5, 14, 6, 1, 6, 13, 6, 16, 6, 19, 6, 22, 6, 25, 7, 1, 7, 4,
      7, 7, 7, 8, 7, 14, 7, 19, 7, 21, 7, 28, 7, 31, 7, 32, 7, 37, 7, 41,
      7, 42, 7, 50, 7, 55, 7, 56, 7, 59, 7, 62, 8, 14, 8, 21, 8, 22, 8, 38>>

\* sobol_m[][10]: the initial direction numbers, the entries not given being 0.
sobol_m ==
    << <<1, 0, 0, 0, 0, 0, 0, 0, 0, 0>>,
       <<1, 1, 0, 0, 0, 0, 0, 0, 0, 0>>,
       <<1, 3, 1, 0, 0, 0, 0, 0, 0, 0>>,
       <<1, 3, 3, 0, 0, 0, 0, 0, 0, 0>>,
       <<1, 1, 1, 1, 0, 0, 0, 0, 0, 0>>,
       <<1, 1, 3, 3, 0, 0, 0, 0, 0, 0>>,
       <<1, 3, 5, 13, 7, 0, 0, 0, 0, 0>>,
       <<1, 1, 5, 5, 21, 0, 0, 0, 0, 0>>,
       <<1, 3, 1, 15, 21, 0, 0, 0, 0, 0>>,
       <<1, 3, 7, 5, 27, 0, 0, 0, 0, 0>>,
       <<1, 1, 5, 11, 19, 0, 0, 0, 0, 0>>,
       <<1, 3, 5, 1, 1, 0, 0, 0, 0, 0>>,
       <<1, 1, 1, 3, 29, 15, 0, 0, 0, 0>>,
       <<1, 1, 3, 7, 7, 49, 0, 0, 0, 0>>,
       <<1, 1, 1, 9, 19, 21, 0, 0, 0, 0>>,
       <<1, 1, 1, 13, 21, 55, 0, 0, 0, 0>>,
       <<1, 1, 7, 5, 7, 11, 0, 0, 0, 0>>,
       <<1, 1, 7, 7, 31, 17, 0, 0, 0, 0>>,
       <<1, 3, 7, 13, 1, 5, 49, 0, 0, 0>>,
       <<1, 1, 5, 3, 17, 57, 97, 0, 0, 0>>,
       <<1, 1, 7, 1, 7, 33, 73, 0, 0, 0>>,
       <<1, 3, 3, 9, 23, 47, 97, 0, 0, 0>>,
       <<1, 3, 7, 5, 5, 27, 39, 0, 0, 0>>,
       <<1, 3, 1, 3, 21, 3, 7, 0, 0, 0>>,
       <<1, 1, 5, 11, 29, 17, 117, 0, 0, 0>>,
       <<1, 1, 3, 15, 15, 49, 125, 0, 0, 0>>,
       <<1, 3, 1, 11, 19, 7, 3, 0, 0, 0>>,
       <<1, 1, 7, 7, 25, 5, 85, 0, 0, 0>>,
       <<1, 1, 7, 13, 29, 51, 107, 0, 0, 0>>,
       <<1, 3, 5, 13, 31, 55, 89, 0, 0, 0>>,
       <<1, 1, 1, 5, 11, 51, 69, 0, 0, 0>>,
       <<1, 1, 3, 7, 17, 39, 127, 0, 0, 0>>,
       <<1, 1, 1, 9, 1, 33, 83, 0, 0, 0>>,
       <<1, 3, 5, 7, 19, 29, 73, 0, 0, 0>>,
       <<1, 3, 5, 5, 1, 37, 101, 0, 0, 0>>,
       <<1, 3, 3, 11, 29, 33, 93, 0, 0, 0>>,
       <<1, 3, 1, 3, 25, 29, 127, 151, 0, 0>>,
       <<1, 1, 7, 11, 5, 5, 23, 69, 0, 0>>,
       <<1, 3, 3, 1, 31, 51, 95, 243, 0, 0>>,
       <<1, 3, 3, 15, 17, 41, 83, 247, 0, 0>> >>

FallbackMulD == <<0, 0, 0, 0, 0, 0, 0, 0, 9, 14, 3, 7, 7, 9, 11, 1>>
FallbackMulK == <<0, 0, 0, 0, 0, 0, 0, 0, 5, 15, 3, 5, 6, 4, 9, 5>>

\* v[0][k] = 1U << (MCO_SOBOL_BITS - 1 - k)
FirstDimension == [k \in 1 .. MCO_SOBOL_BITS |-> Shl32(Small(1), MCO_SOBOL_BITS - k)]

\* One pass of the recurrence loop for v[d][k], vs holding v[d][0 .. k-1].
RECURSIVE RecurrenceXor(_, _, _, _, _, _)
RecurrenceXor(v_k, vs, k, deg, poly, j) ==
    IF j < deg
    THEN RecurrenceXor(IF (poly \div (2 ^ (deg - 1 - j))) % 2 = 1
                       THEN Xor(v_k, vs[k - j + 1]) ELSE v_k,
                       vs, k, deg, poly, j + 1)
    ELSE v_k

RECURSIVE Recurrence(_, _, _, _)
Recurrence(vs, k, deg, poly) ==
    IF k < MCO_SOBOL_BITS
    THEN CHOOSE r \in
           {Recurrence(m, k + 1, deg, poly) :
              m \in {Append(vs, RecurrenceXor(Xor(vs[k - deg + 1], Shr(vs[k - deg + 1], deg)),
                                              vs, k, deg, poly, 1))}} : TRUE
    ELSE vs

\* The tabulated dimensions, 0 < d < 40.
TabulatedDimension(d) ==
    LET deg == sobol_poly[d * 2 + 1]
        poly == sobol_poly[d * 2 + 2]
    IN Recurrence([k \in 1 .. deg |-> Shl32(Small(sobol_m[d + 1][k]), MCO_SOBOL_BITS - k)],
                  deg, deg, poly)

\* The dimensions from 40 on.
FallbackDimension(d) ==
    [k \in 1 .. MCO_SOBOL_BITS |->
        Or(Shl32(Xor(Mul32(Small(d), FallbackMulD), Mul32(Small(k - 1), FallbackMulK)),
                 MCO_SOBOL_BITS - k),
           Shl32(Small(1), MCO_SOBOL_BITS - k))]

DirectionNumbers(d) ==
    IF d = 0 THEN FirstDimension
    ELSE IF d < 40 THEN TabulatedDimension(d)
    ELSE FallbackDimension(d)

\* mco_sobol_init on the structure s: -1 and s untouched, or 0 and s set up.
mco_sobol_init(s, dim) ==
    IF dim = 0 \/ dim > MCO_SOBOL_MAX_DIM
    THEN [s EXCEPT !.result = -1]
    ELSE [pc |-> "ready", result |-> 0, dim |-> dim, count |-> Zero64,
          x |-> [d \in 1 .. dim |-> Zero64],
          v |-> [d \in 1 .. dim |-> DirectionNumbers(d - 1)],
          point |-> s.point, ops |-> <<>>]

\* rightmost_zero: the number of trailing 1 bits of n, counted from c on.
RECURSIVE rightmost_zero(_, _)
rightmost_zero(n, c) ==
    IF c < MCO_SOBOL_BITS /\ BitOf(n, c) = 1 THEN rightmost_zero(n, c + 1) ELSE c

\* sobol->count++
CountInc(n) == Mask32(Add(n, Small(1)))

\* x[d] ^= v[d][c] for every dimension.
XorDirection(s) ==
    LET c == rightmost_zero(s.count, 0)
    IN [d \in 1 .. s.dim |-> Xor(s.x[d], s.v[d][c + 1])]

mco_sobol_next(s) ==
    LET x == XorDirection(s)
    IN [s EXCEPT !.x = x, !.point = x, !.count = CountInc(s.count)]

\* Variant of mco_sobol_skip: the count moved on by n, x left alone.
RECURSIVE mco_sobol_skip_count(_, _)
mco_sobol_skip_count(s, n) ==
    IF n = 0 THEN s
    ELSE mco_sobol_skip_count([s EXCEPT !.count = CountInc(s.count)], n - 1)

RECURSIVE mco_sobol_skip(_, _)
mco_sobol_skip(s, n) ==
    IF n = 0 THEN s
    ELSE CHOOSE r \in {mco_sobol_skip(m, n - 1) :
                         m \in {[s EXCEPT !.x = XorDirection(s),
                                          !.count = CountInc(s.count)]}} : TRUE

mco_sobol_reset(s) ==
    [s EXCEPT !.count = Zero64, !.x = [d \in 1 .. s.dim |-> Zero64]]

SobolInitState ==
    /\ PricingInit
    /\ ApiIdle /\ RngIdle /\ TwoIdle /\ BarrierIdle /\ KernelsIdle
    /\ sobol = NoSobol

\* The operations since the structure was last set up or reset.
Logged(s, op, n) == [s EXCEPT !.ops = Append(@, [op |-> op, n |-> n])]

SobolInit(dim) ==
    /\ sobol.pc = "off"
    /\ sobol.result = 0
    /\ sobol' = mco_sobol_init(sobol, dim)
    /\ UNCHANGED sobol_rest

SobolNext ==
    /\ sobol.pc = "ready"
    /\ Len(sobol.ops) < MaxSobolOps
    /\ sobol' = Logged(mco_sobol_next(sobol), "mco_sobol_next", 1)
    /\ UNCHANGED sobol_rest

SobolSkip(n) ==
    /\ sobol.pc = "ready"
    /\ Len(sobol.ops) < MaxSobolOps
    /\ sobol' = Logged(mco_sobol_skip(sobol, n), "mco_sobol_skip", n)
    /\ UNCHANGED sobol_rest

SobolReset ==
    /\ sobol.pc = "ready"
    /\ Len(sobol.ops) = MaxSobolOps
    /\ sobol.result = 0
    /\ sobol' = [mco_sobol_reset(sobol) EXCEPT !.ops = <<>>, !.result = 1]
    /\ UNCHANGED sobol_rest

SobolStep ==
    \/ \E dim \in SobolDims : SobolInit(dim)
    \/ SobolNext
    \/ \E n \in 0 .. MaxSkip : SobolSkip(n)
    \/ SobolReset

SobolSpec == SobolInitState /\ [][SobolStep]_vars

\* The structure after n calls of mco_sobol_next from s.
RECURSIVE NextTimes(_, _)
NextTimes(s, n) ==
    IF n = 0 THEN s
    ELSE CHOOSE r \in {NextTimes(m, n - 1) : m \in {mco_sobol_next(s)}} : TRUE

RECURSIVE Advanced(_, _)
Advanced(ops, i) == IF i > Len(ops) THEN 0 ELSE ops[i].n + Advanced(ops, i + 1)

Fresh(s) == [s EXCEPT !.count = Zero64, !.x = [d \in 1 .. s.dim |-> Zero64]]

\* C18: on a generator just set up, whatever the dimension count, the state
\* after any calls of skip and next is the state after as many calls of next
\* as they advance by in all, and a next that follows returns the point the
\* last of these calls of next returns; so skip(k) then next() is the last
\* of k + 1 calls of next(), and skip(n) reaches the state of n calls.
C18_SkipIsNexts ==
    (sobol.pc = "ready" /\ sobol.ops # <<>>) =>
        LET ref == NextTimes(Fresh(sobol), Advanced(sobol.ops, 1))
        IN /\ sobol.count = ref.count
           /\ sobol.x = ref.x
           /\ sobol.ops[Len(sobol.ops)].op = "mco_sobol_next" => sobol.point = ref.point

\* skip(3) then next() in 41 dimensions: the fourth point of the sequence.
C18_Witness ==
    /\ sobol.pc = "ready"
    /\ sobol.dim = 41
    /\ sobol.ops = <<[op |-> "mco_sobol_skip", n |-> 3], [op |-> "mco_sobol_next", n |-> 1]>>
    /\ sobol.count = Small(4)
    /\ sobol.point = NextTimes(Fresh(sobol), 4).point
    /\ sobol.point[1] = <<0, 0, 0, 0, 0, 0, 0, 0, 6, 0, 0, 0, 0, 0, 0, 0>>

(***************************************************************************)
(* The default number of exercise steps of mco_price_american.             *)
(***************************************************************************)
\* A call of mco_price_american with num_steps = 0 and valid arguments
\* returns in this step.
AmericanDefaultCall ==
    /\ pc = "config"
    /\ pc' = "returned"
    /\ fn' = "mco_price_american"
    /\ count' = 0
    /\ ~InvalidEuropean(args')

\* C19: a call of mco_price_american with num_steps = 0 and valid arguments
\* does what the same call with num_steps = 52 does under the same outcomes
\* of the allocations: it returns the same value and leaves the same error
\* code; when no allocation fails the value is that of 52 exercise steps
\* and last_error is not written.
C19_DefaultSteps ==
    [][AmericanDefaultCall =>
          \E fail \in FailSets(LsmSites) :
             LET r == mco_price_american(ctx, <<heap, faults>>, args',
                                         MCO_DEFAULT_AMERICAN_STEPS, fail)
             IN /\ ret' = r.ret
                /\ ctx' = r.ctx
                /\ heap' = r.heap
                /\ (\A b \in LsmSites : heap'[b] # "failed") =>
                      /\ ret' = LsmValue(ctx.num_simulations, MCO_DEFAULT_AMERICAN_STEPS)
                      /\ ctx'.last_error = ctx.last_error]_vars

C19_Witness ==
    /\ pc = "returned"
    /\ fn = "mco_price_american"
    /\ count = 0
    /\ ~InvalidEuropean(args)
    /\ ret.kind = "value"
    /\ ret.steps = MCO_DEFAULT_AMERICAN_STEPS
    /\ ctx.last_error = MCO_OK

(***************************************************************************)
(* The master RNG across a pricing call.                                   *)
(***************************************************************************)
\* C20: a pricing call leaves ctx->rng as it found it, so that a second
\* identical call starts from the same state and returns the same price.
C20_MasterRngKept == pc = "returned" => ctx.rng = rng_entry

\* A single-threaded European call has returned a price over three paths,
\* and ctx->rng is three normals further than at entry.
C20_Witness ==
    /\ pc = "returned"
    /\ fn = "mco_price_european"
    /\ ctx.num_threads <= 1
    /\ ctx.antithetic_enabled = 0
    /\ ret.kind = "price"
    /\ ret.paths = 3
    /\ ctx.rng # rng_entry
    /\ ctx.rng = mco_rng_normal_state(mco_rng_normal_state(mco_rng_normal_state(rng_entry)))

(***************************************************************************)
(* The last-error slot after a pricing call.                               *)
(***************************************************************************)
\* The last operation completed on context k is a pricing call.
LastPriced(k) ==
    /\ calls[k].pc = "idle"
    /\ done[k][Len(done[k])].op = "mco_price_european"

\* C21: after every pricing call on a context, last_error tells the outcome
\* of that call, MCO_OK when it returned a price and the error code when it
\* failed, whatever the earlier calls on the context did.
C21_LastErrorReflects ==
    \A k \in Contexts :
        LastPriced(k) =>
            IF done[k][Len(done[k])].ret.kind = "price"
            THEN ctxs[k].last_error = MCO_OK
            ELSE ctxs[k].last_error = MCO_ERR_INVALID_ARG

\* A call with arguments out of range, then a call that returns a price: the
\* slot still holds the error of the first.
C21_Witness ==
    /\ LastPriced(1)
    /\ Len(done[1]) = 3
    /\ done[1][2].op = "mco_price_european"
    /\ done[1][2].ret = Zero
    /\ done[1][3].ret.kind = "price"
    /\ ctxs[1].last_error = MCO_ERR_INVALID_ARG

(***************************************************************************)
(* The backward induction of mco_lsm_american, once its buffers are        *)
(* allocated.  Paths are followed in units of log-price as for the barrier *)
(* pricer.  A cash flow is the payoff it was last set to and the number of *)
(* times it was multiplied by df since.  The regression works on doubles   *)
(* and is not carried out: whether mco_lsm_regress reports a singular      *)
(* matrix, and for which in-the-money paths exercise_value > continuation  *)
(* holds, are inputs of the step.  The initial states are those at the end *)
(* of step 1, the paths generated from a copy of ctx->rng seeded with 42.  *)
(***************************************************************************)
MaxLsmPaths == 4
MaxLsmSteps == 3

MCO_LSM_NUM_BASIS == 3

StrikeLevels == {0, 3}

OptionTypes == {"MCO_CALL", "MCO_PUT"}

lsm_rest == <<pricing, got, globals, touched, prng, ctxs, calls, done, sobol, barrier, heston,
              sabr, bermudan>>

\* mco_payoff(s, strike, type) > 0.0
InTheMoney(s, strike, type) == IF type = "MCO_CALL" THEN s > strike ELSE s < strike

\* The paths of the generation loop from path i on, from the copy of ctx->rng.
RECURSIVE LsmPaths(_, _, _, _)
LsmPaths(rng, i, n_paths, num_steps) ==
    IF i < n_paths
    THEN CHOOSE r \in {<<m[2]>> \o LsmPaths(m[1], i + 1, n_paths, num_steps) :
                         m \in {mco_gbm_simulate_path(<<rng, <<0>>>>, 0, num_steps)}} : TRUE
    ELSE <<>>

CashFlow(payoff, discounts) == [payoff |-> payoff, discounts |-> discounts]

\* cashflow[i] *= df
Discounted(cf) == [cf EXCEPT !.discounts = @ + 1]

\* Variants of LsmEnough, LsmLoopTest and LsmFinalDiscount: a regression on
\* any in-the-money path, a loop that goes on to step 0, no last discount.
LsmEnoughOne(n_itm) == n_itm >= 1

LsmLoopTestZero(step) == step >= 0

LsmFinalDiscountNone(cf) == cf

\* The test that is the negation of n_itm < MCO_LSM_NUM_BASIS.
LsmEnough(n_itm) == n_itm >= MCO_LSM_NUM_BASIS

\* The test of the backward loop: step >= 1.
LsmLoopTest(step) == step >= 1

\* The final discount to time 0.
LsmFinalDiscount(cf) == Discounted(cf)

LsmInit ==
    /\ PricingInit
    /\ ApiIdle /\ RngIdle /\ TwoIdle /\ SobolIdle /\ BarrierIdle
    /\ heston = NoKernel /\ sabr = NoKernel /\ bermudan = NoKernel
    /\ \E n_paths \in 1 .. MaxLsmPaths, num_steps \in 1 .. MaxLsmSteps,
          strike \in StrikeLevels, type \in OptionTypes :
          lsm = [pc |-> "start", n_paths |-> n_paths, num_steps |-> num_steps,
                 strike |-> strike, type |-> type,
                 paths |-> LsmPaths(mco_rng_seed(Small(42)), 0, n_paths, num_steps),
                 cashflow |-> <<>>, exercise_time |-> <<>>, step |-> 0,
                 visited |-> <<>>, before |-> <<>>,
                 last |-> [step |-> 0, itm |-> {}, rc |-> 0, exceeds |-> {}]]

\* exercise_time[i] = num_steps and step 2, the terminal payoffs; then the
\* entry of the backward loop, step = num_steps - 1.
LsmTerminal ==
    /\ lsm.pc = "start"
    /\ lsm' = [lsm EXCEPT
                  !.pc = "loop",
                  !.exercise_time = [i \in 1 .. lsm.n_paths |-> lsm.num_steps],
                  !.cashflow = [i \in 1 .. lsm.n_paths |->
                                   CashFlow(VanillaPayoff(lsm.paths[i][lsm.num_steps + 1]), 0)],
                  !.step = lsm.num_steps - 1]
    /\ UNCHANGED lsm_rest

\* One pass of the backward loop at lsm.step, and the decrement of step.
LsmStep(rc, exceeds) ==
    /\ lsm.pc = "loop"
    /\ LsmLoopTest(lsm.step)
    /\ LET step == lsm.step
           discounted == [i \in 1 .. lsm.n_paths |-> Discounted(lsm.cashflow[i])]
           itm == {i \in 1 .. lsm.n_paths :
                     InTheMoney(lsm.paths[i][step + 1], lsm.strike, lsm.type)}
           regressed == LsmEnough(Cardinality(itm))
           decided == regressed /\ rc = 0
       IN /\ rc \in {0, -1}
          /\ exceeds \subseteq itm
          /\ ~regressed => rc = 0
          /\ ~decided => exceeds = {}
          /\ lsm' = [lsm EXCEPT
                        !.cashflow = [i \in 1 .. lsm.n_paths |->
                                         IF decided /\ i \in exceeds
                                         THEN CashFlow(VanillaPayoff(lsm.paths[i][step + 1]), 0)
                                         ELSE discounted[i]],
                        !.exercise_time = [i \in 1 .. lsm.n_paths |->
                                              IF decided /\ i \in exceeds THEN step ELSE @[i]],
                        !.step = step - 1,
                        !.visited = Append(@, step),
                        !.before = lsm.cashflow,
                        !.last = [step |-> step, itm |-> itm, rc |-> rc, exceeds |-> exceeds]]
    /\ UNCHANGED lsm_rest

\* Step 4: the last discount; the mean of the cash flows is the price.
LsmFinish ==
    /\ lsm.pc = "loop"
    /\ ~LsmLoopTest(lsm.step)
    /\ lsm' = [lsm EXCEPT !.pc = "done",
                          !.cashflow = [i \in 1 .. lsm.n_paths |-> LsmFinalDiscount(@[i])]]
    /\ UNCHANGED lsm_rest

LsmNext ==
    \/ LsmTerminal
    \/ \E rc \in {0, -1}, exceeds \in SUBSET (1 .. MaxLsmPaths) : LsmStep(rc, exceeds)
    \/ LsmFinish

LsmSpec == LsmInit /\ [][LsmNext]_vars

LsmLiveSpec == LsmSpec /\ WF_vars(LsmNext)

\* C22: at a step of the backward induction the cash flow of a path becomes
\* its immediate exercise value iff the path is in the money at that step,
\* at least three paths are, the regression was not found singular and the
\* exercise value exceeds the continuation; otherwise the step multiplies
\* that cash flow once by the single-step discount and does no more.
C22_ExerciseRule ==
    (lsm.pc = "loop" /\ lsm.visited # <<>>) =>
        \A i \in 1 .. lsm.n_paths :
            IF /\ i \in lsm.last.itm
               /\ Cardinality(lsm.last.itm) >= 3
               /\ lsm.last.rc = 0
               /\ i \in lsm.last.exceeds
            THEN /\ lsm.cashflow[i] = CashFlow(VanillaPayoff(lsm.paths[i][lsm.last.step + 1]), 0)
                 /\ lsm.exercise_time[i] = lsm.last.step
            ELSE lsm.cashflow[i] = [lsm.before[i] EXCEPT !.discounts = @ + 1]

\* Four paths, three of them in the money at step 2, two of these exercised.
C22_Witness ==
    /\ lsm.pc = "loop"
    /\ lsm.visited # <<>>
    /\ Cardinality(lsm.last.itm) = 3
    /\ lsm.n_paths = 4
    /\ lsm.last.rc = 0
    /\ Cardinality(lsm.last.exceeds) = 2

\* C23: in the price returned, the cash flow of each path was multiplied by
\* the single-step discount exactly s times, s being the step between 1 and
\* S at which its value was set, S for a path never exercised early.
C23_DiscountCount ==
    lsm.pc = "done" =>
        \A i \in 1 .. lsm.n_paths :
            /\ lsm.exercise_time[i] \in 1 .. lsm.num_steps
            /\ lsm.cashflow[i].discounts = lsm.exercise_time[i]
            /\ lsm.cashflow[i].payoff = VanillaPayoff(lsm.paths[i][lsm.exercise_time[i] + 1])

\* Three steps: one path exercised at step 1, one at step 2, one at maturity.
C23_Witness ==
    /\ lsm.pc = "done"
    /\ lsm.num_steps = 3
    /\ \E i, j, k \in 1 .. lsm.n_paths :
          /\ lsm.cashflow[i].discounts = 1
          /\ lsm.cashflow[j].discounts = 2
          /\ lsm.cashflow[k].discounts = 3

\* The steps S - 1, S - 2, ..., 1.
Descending(n) == [j \in 1 .. n |-> n + 1 - j]

\* C24: for every step count S >= 1 the backward induction visits the steps
\* S - 1, S - 2, ..., 1 once each in this order, none for S = 1, never
\* step 0, and comes to its end.
C24_BackwardOrder ==
    /\ [](lsm.pc \in {"loop", "done"} =>
             /\ Len(lsm.visited) <= lsm.num_steps - 1
             /\ lsm.visited = SubSeq(Descending(lsm.num_steps - 1), 1, Len(lsm.visited))
             /\ lsm.pc = "done" => lsm.visited = Descending(lsm.num_steps - 1))
    /\ <>(lsm.pc = "done")

C24_Witness ==
    /\ lsm.pc = "done"
    /\ lsm.num_steps = 3
    /\ lsm.visited = <<2, 1>>

(***************************************************************************)
(* The Heston kernel (part_008:379-546): mco_heston_path_init,             *)
(* mco_heston_correlated_normals, mco_heston_step_euler and the loop of    *)
(* mco_heston_simulate_path.  Spot, variance and the parameters are        *)
(* followed on an integer lattice, a square root is rounded down to the    *)
(* lattice, and the two standard normals of a step are inputs.             *)
(***************************************************************************)
MaxHestonSteps == 3

HestonNormals == {-1, 0, 1}

heston_rest == <<pricing, got, globals, touched, prng, ctxs, calls, done, sobol, barrier, lsm, sabr, bermudan>>

fmax(a, b) == IF a >= b THEN a ELSE b

sqrt(n) == CHOOSE k \in 0..n : k * k <= n /\ (k + 1) * (k + 1) > n

mco_heston_path_init(spot, v0, kappa, theta, sigma, rho, rate, time, num_steps) ==
    [spot |-> spot, v0 |-> v0, kappa |-> kappa, theta |-> theta,
     sigma |-> sigma, rho |-> rho, rate |-> rate,
     dt |-> time \div num_steps,
     sqrt_dt |-> sqrt(time \div num_steps),
     sqrt_rho |-> sqrt(1 - rho * rho),
     num_steps |-> num_steps]

mco_heston_correlated_normals(model, z1, z2) ==
    [w1 |-> z1, w2 |-> model.rho * z1 + model.sqrt_rho * z2]

\* The variance a step without truncation of the drift would use.
HestonDriftVarianceRaw(v) == v

\* The variance the drift of the step uses: v_plus.
HestonDriftVariance(v) == fmax(v, 0)

mco_heston_step_euler(model, s, v, w1, w2) ==
    LET v_plus == fmax(v, 0)
        sqrt_v == sqrt(v_plus)
        ds == model.rate * s * model.dt + sqrt_v * s * model.sqrt_dt * w1
        dv == model.kappa * (model.theta - HestonDriftVariance(v)) * model.dt
              + model.sigma * sqrt_v * model.sqrt_dt * w2
    IN  [spot |-> s + ds, var |-> v + dv]

HestonInit ==
    /\ PricingInit
    /\ ApiIdle /\ RngIdle /\ TwoIdle /\ SobolIdle /\ BarrierIdle
    /\ lsm = NoKernel /\ sabr = NoKernel /\ bermudan = NoKernel
    /\ \E v0 \in {0, 1, 4}, kappa \in {1, 2}, sigma \in {1, 2},
          rho \in {-1, 0, 1}, num_steps \in 1..MaxHestonSteps, dt \in {1, 4} :
          LET model == mco_heston_path_init(1, v0, kappa, 1, sigma, rho, 0,
                                            dt * num_steps, num_steps)
          IN  heston = [pc |-> "path", model |-> model, s |-> model.spot,
                        v |-> model.v0, i |-> 0,
                        last |-> [v |-> 0, w2 |-> 0]]

\* One pass of the loop of mco_heston_simulate_path.
HestonStep(z1, z2) ==
    /\ heston.pc = "path"
    /\ heston.i < heston.model.num_steps
    /\ LET w == mco_heston_correlated_normals(heston.model, z1, z2)
           r == mco_heston_step_euler(heston.model, heston.s, heston.v, w.w1, w.w2)
       IN  heston' = [heston EXCEPT !.s = r.spot, !.v = r.var, !.i = @ + 1,
                                    !.last = [v |-> heston.v, w2 |-> w.w2]]
    /\ UNCHANGED heston_rest

HestonReturn ==
    /\ heston.pc = "path"
    /\ heston.i = heston.model.num_steps
    /\ heston' = [heston EXCEPT !.pc = "done"]
    /\ UNCHANGED heston_rest

HestonNext ==
    \/ \E z1 \in HestonNormals, z2 \in HestonNormals : HestonStep(z1, z2)
    \/ HestonReturn

HestonSpec == HestonInit /\ [][HestonNext]_vars

HestonStepped == heston.pc \in {"path", "done"} /\ heston.i >= 1

HestonDiffusion == heston.model.sigma * sqrt(IF heston.last.v > 0 THEN heston.last.v ELSE 0) * heston.model.sqrt_dt * heston.last.w2

\* C25 as stated: after every full-truncation Euler step the stored variance
\* is v + kappa*(theta - v)*dt + sigma*sqrt(max(v, 0))*sqrt(dt)*W2 with the
\* untruncated variance v of before the step in the drift.
C25_UntruncatedDrift ==
    HestonStepped =>
        heston.v = heston.last.v
                   + heston.model.kappa * (heston.model.theta - heston.last.v) * heston.model.dt
                   + HestonDiffusion

\* C25 amended: after every full-truncation Euler step the stored variance is
\* v + kappa*(theta - max(v, 0))*dt + sigma*sqrt(max(v, 0))*sqrt(dt)*W2, the
\* truncated variance in the drift as in the diffusion, and the sum is stored
\* without truncation (it may be negative).
C25_TruncatedDrift ==
    HestonStepped =>
        heston.v = heston.last.v
                   + heston.model.kappa
                     * (heston.model.theta - (IF heston.last.v > 0 THEN heston.last.v ELSE 0))
                     * heston.model.dt
                   + HestonDiffusion

\* A step taken from a negative stored variance has stored a negative variance.
C25_Witness == HestonStepped /\ heston.last.v < 0 /\ heston.v < 0 /\ heston.last.w2 # 0

(***************************************************************************)
(* The SABR kernel (part_008:99-212) as price_sabr_european (part_020:     *)
(* 33-73) runs it for one path: the argument test of the pricer,           *)
(* mco_sabr_path_init, mco_sabr_correlated_normals, mco_sabr_step and the  *)
(* loop of mco_sabr_simulate_path.  The forward is followed on an integer  *)
(* lattice and the volatility on a lattice whose unit is half of 1e-10, so *)
(* that a positive volatility below 1e-10 is a lattice value; the two      *)
(* standard normals of a step are inputs.                                  *)
(***************************************************************************)
MaxSabrSteps == 3

SabrNormals == {-1, 0, 1}

\* 1e-10 in units of the volatility lattice.
SabrSmallPositive == 2

sabr_rest == <<pricing, got, globals, touched, prng, ctxs, calls, done, sobol, barrier, lsm, heston, bermudan>>

RECURSIVE pow(_, _)
pow(x, b) == IF b = 0 THEN 1 ELSE x * pow(x, b - 1)

mco_sabr_path_init(forward, alpha, beta, rho, nu, time, num_steps) ==
    [forward |-> forward, alpha |-> alpha, beta |-> beta, rho |-> rho,
     nu |-> nu,
     dt |-> time \div num_steps,
     sqrt_dt |-> sqrt(time \div num_steps),
     sqrt_rho |-> sqrt(1 - rho * rho),
     num_steps |-> num_steps]

mco_sabr_correlated_normals(model, z1, z2) ==
    [w1 |-> z1, w2 |-> model.rho * z1 + model.sqrt_rho * z2]

\* A step that uses the stored volatility whatever its sign.
SabrSigmaRaw(s) == s

\* if (s <= 0.0) s = 1e-10
SabrSigma(s) == IF s <= 0 THEN SabrSmallPositive ELSE s

\* A step that stores f + df whatever its sign.
SabrAbsorbNone(x) == x

\* *forward = fmax(f + df, 0.0)
SabrAbsorb(x) == fmax(x, 0)

mco_sabr_step(model, f, s0, w1, w2) ==
    IF f <= 0
    THEN [forward |-> 0, sigma |-> s0, used |-> 0]
    ELSE LET s == SabrSigma(s0)
             f_beta == pow(f, model.beta)
             df == s * f_beta * model.sqrt_dt * w1
             ds == model.nu * s * model.sqrt_dt * w2
         IN  [forward |-> SabrAbsorb(f + df), sigma |-> fmax(s + ds, 0), used |-> s]

SabrInit ==
    /\ PricingInit
    /\ ApiIdle /\ RngIdle /\ TwoIdle /\ SobolIdle /\ BarrierIdle
    /\ lsm = NoKernel /\ heston = NoKernel /\ bermudan = NoKernel
    /\ sabr = [pc |-> "start", last_error |-> MCO_OK]

\* price_sabr_european up to the first path: the argument test, the model
\* and the start of mco_sabr_simulate_path.
SabrPrice(forward, strike, time, alpha, beta, rho, nu, num_steps) ==
    /\ sabr.pc = "start"
    /\ IF forward <= 0 \/ strike <= 0 \/ time < 0
       THEN sabr' = [pc |-> "rejected", last_error |-> MCO_ERR_INVALID_ARG]
       ELSE LET model == mco_sabr_path_init(forward, alpha, beta, rho, nu, time, num_steps)
            IN  sabr' = [pc |-> "path", last_error |-> sabr.last_error,
                         model |-> model, f |-> model.forward, s |-> model.alpha,
                         i |-> 0, last |-> [f |-> 0, s |-> 0, used |-> 0]]
    /\ UNCHANGED sabr_rest

\* One pass of the loop of mco_sabr_simulate_path.
SabrStep(z1, z2) ==
    /\ sabr.pc = "path"
    /\ sabr.i < sabr.model.num_steps
    /\ LET w == mco_sabr_correlated_normals(sabr.model, z1, z2)
           r == mco_sabr_step(sabr.model, sabr.f, sabr.s, w.w1, w.w2)
       IN  sabr' = [sabr EXCEPT !.f = r.forward, !.s = r.sigma, !.i = @ + 1,
                                !.last = [f |-> sabr.f, s |-> sabr.s, used |-> r.used]]
    /\ UNCHANGED sabr_rest

SabrReturn ==
    /\ sabr.pc = "path"
    /\ sabr.i = sabr.model.num_steps
    /\ sabr' = [sabr EXCEPT !.pc = "done"]
    /\ UNCHANGED sabr_rest

SabrNext ==
    \/ \E forward \in {0, 1, 2}, strike \in {0, 1}, time \in {-1, 0, 1},
          alpha \in {-1, 0, 1, 2}, beta \in {0, 1}, rho \in {-1, 0, 1},
          nu \in {0, 1}, num_steps \in 1 .. MaxSabrSteps :
          SabrPrice(forward, strike, time * num_steps, alpha, beta, rho, nu, num_steps)
    \/ \E z1 \in SabrNormals, z2 \in SabrNormals : SabrStep(z1, z2)
    \/ SabrReturn

SabrSpec == SabrInit /\ [][SabrNext]_vars

SabrOnPath == sabr.pc \in {"path", "done"}

SabrStepped == SabrOnPath /\ sabr.i >= 1

\* C26: along every simulated SABR path the forward is >= 0 at every step,
\* and once it is 0 it is 0 at every later step of the path.
C26_ForwardAbsorbed ==
    /\ [](SabrOnPath => sabr.f >= 0)
    /\ [][(SabrOnPath /\ sabr.f = 0) => sabr'.f = 0]_vars

\* A path that reached 0 from a positive forward and took a further step.
C26_Witness ==
    /\ SabrStepped /\ sabr.i = 3
    /\ sabr.model.forward > 0 /\ sabr.last.f = 0 /\ sabr.f = 0

\* C27 as stated: in every Euler step in which the forward is positive, the
\* volatility used for the two increments is at least 1e-10.
C27_SigmaFloor ==
    (SabrStepped /\ sabr.last.f > 0) => sabr.last.used >= SabrSmallPositive

\* C27 amended: in every Euler step in which the forward is positive, the
\* volatility used for the two increments is positive: it is the current
\* volatility if that is greater than 0 and 1e-10 if it is 0 or less.
C27_SigmaPositive ==
    (SabrStepped /\ sabr.last.f > 0) =>
        /\ sabr.last.used > 0
        /\ sabr.last.used = (IF sabr.last.s > 0 THEN sabr.last.s ELSE SabrSmallPositive)

\* A step with positive forward whose volatility had been stored as 0 by the
\* step before it and was replaced by 1e-10.
C27_Witness ==
    /\ SabrStepped /\ sabr.i >= 2 /\ sabr.model.alpha > 0
    /\ sabr.last.f > 0 /\ sabr.last.s = 0 /\ sabr.last.used = SabrSmallPositive

(***************************************************************************)
(* The Bermudan pricer (part_019) up to the snapshot indices: the argument *)
(* tests of mco_price_bermudan, the length of the fine path, the           *)
(* conversion of the exercise times to step indices, and the uniform       *)
(* schedule of mco_price_bermudan_uniform.  An exercise time is a fraction *)
(* <<numerator, denominator>> of the maturity; the schedules given to      *)
(* mco_price_bermudan are the ones its header asks for, ascending and      *)
(* ending at 1.0 (part_012:83-84).                                         *)
(***************************************************************************)
MaxExercise == 3

MaxUniformExercise == 6

\* The exercise times of a given schedule are multiples of 1 / TimeGrid.
TimeGrid == 20

bermudan_rest == <<pricing, got, globals, touched, prng, ctxs, calls, done, sobol, barrier, lsm, heston, sabr>>

\* size_t sim_steps = num_exercise * 10; if (sim_steps < 50) sim_steps = 50;
SimSteps(num_exercise) ==
    IF num_exercise * 10 < 50 THEN 50 ELSE num_exercise * 10

\* ex_steps[i]: t_frac limited to [0, 1], (size_t)(t_frac * sim_steps + 0.5),
\* limited to sim_steps.
ExStep(t, sim_steps) ==
    LET t_frac == IF t[1] > t[2] THEN <<1, 1>>
                  ELSE IF t[1] < 0 THEN <<0, 1>> ELSE t
        step == (2 * t_frac[1] * sim_steps + t_frac[2]) \div (2 * t_frac[2])
    IN  IF step > sim_steps THEN sim_steps ELSE step

\* ex_times[i] = (double)(i + 1) / (double)num_exercise, i from 0.
UniformTimes(num_exercise) == [i \in 1 .. num_exercise |-> <<i, num_exercise>>]

Ascending(times) ==
    /\ \A j \in 1 .. Len(times) - 1 : times[j][1] < times[j + 1][1]
    /\ times[Len(times)][1] = TimeGrid

GivenSchedules ==
    {times \in UNION {[1 .. n -> {<<k, TimeGrid>> : k \in 1 .. TimeGrid}] : n \in 1 .. MaxExercise} :
        Ascending(times)}

BermudanInit ==
    /\ PricingInit
    /\ ApiIdle /\ RngIdle /\ TwoIdle /\ SobolIdle /\ BarrierIdle
    /\ lsm = NoKernel /\ heston = NoKernel /\ sabr = NoKernel
    /\ bermudan = [pc |-> "start", last_error |-> MCO_OK]

\* mco_price_bermudan up to the start of the conversion loop.
BermudanStart(times, num_exercise, ok) ==
    IF num_exercise = 0
    THEN [pc |-> "returned", last_error |-> bermudan.last_error]
    ELSE IF ~ok
    THEN [pc |-> "returned", last_error |-> MCO_ERR_INVALID_ARG]
    ELSE [pc |-> "convert", last_error |-> bermudan.last_error,
          exercise_times |-> times, num_exercise |-> num_exercise,
          sim_steps |-> SimSteps(num_exercise), ex_steps |-> <<>>]

\* A call of mco_price_bermudan with a schedule of the caller; ok is the
\* outcome of the test of spot, strike, volatility and time_to_maturity.
BermudanPrice(times, ok) ==
    /\ bermudan.pc = "start"
    /\ bermudan' = BermudanStart(times, Len(times), ok)
    /\ UNCHANGED bermudan_rest

\* A call of mco_price_bermudan_uniform.
BermudanUniform(num_exercise, ok) ==
    /\ bermudan.pc = "start"
    /\ bermudan' = IF num_exercise = 0
                   THEN [pc |-> "returned", last_error |-> bermudan.last_error]
                   ELSE BermudanStart(UniformTimes(num_exercise), num_exercise, ok)
    /\ UNCHANGED bermudan_rest

\* One pass of the loop that converts the exercise times to step indices.
BermudanConvert ==
    /\ bermudan.pc = "convert"
    /\ Len(bermudan.ex_steps) < bermudan.num_exercise
    /\ bermudan' = [bermudan EXCEPT !.ex_steps =
                       Append(@, ExStep(bermudan.exercise_times[Len(@) + 1], bermudan.sim_steps))]
    /\ UNCHANGED bermudan_rest

\* The paths are simulated with sim_steps steps and read at ex_steps.
BermudanSnapshots ==
    /\ bermudan.pc = "convert"
    /\ Len(bermudan.ex_steps) = bermudan.num_exercise
    /\ bermudan' = [bermudan EXCEPT !.pc = "snapshots"]
    /\ UNCHANGED bermudan_rest

BermudanNext ==
    \/ \E times \in GivenSchedules, ok \in BOOLEAN : BermudanPrice(times, ok)
    \/ \E num_exercise \in 0 .. MaxUniformExercise, ok \in BOOLEAN :
          BermudanUniform(num_exercise, ok)
    \/ BermudanConvert
    \/ BermudanSnapshots

BermudanSpec == BermudanInit /\ [][BermudanNext]_vars

\* C28: for every exercise schedule the Bermudan pricer accepts, the fine
\* path has at least 50 sub-steps and at least 10 sub-steps lie between the
\* snapshot indices of any two successive exercise instants.
C28_SubSteps ==
    bermudan.pc = "snapshots" =>
        /\ bermudan.sim_steps >= 50
        /\ \A j \in 1 .. bermudan.num_exercise - 1 :
              bermudan.ex_steps[j + 1] - bermudan.ex_steps[j] >= 10

\* The schedule {0.5, 0.55, 1.0}: snapshots at steps 25, 28 and 50 of 50.
C28_Witness ==
    /\ bermudan.pc = "snapshots"
    /\ bermudan.exercise_times = <<(<<10, TimeGrid>>), (<<11, TimeGrid>>), (<<20, TimeGrid>>)>>
    /\ bermudan.sim_steps = 50
    /\ bermudan.ex_steps = <<25, 28, 50>>

(***************************************************************************)
(* The number of payoffs behind a European price.                          *)
(***************************************************************************)
EuropeanPriced ==
    /\ pc = "returned"
    /\ fn = "mco_price_european"
    /\ ret.kind = "price"

RECURSIVE PayoffsOfWorkers(_, _)
PayoffsOfWorkers(sums, i) ==
    IF i > Len(sums) THEN 0 ELSE Len(sums[i]) + PayoffsOfWorkers(sums, i + 1)

\* The payoffs added into the sum the price is the discounted mean of.
PayoffsAveraged ==
    IF ctx.num_threads <= 1 THEN Len(ret.sum) ELSE PayoffsOfWorkers(ret.sum, 1)

\* C29: the number of payoffs averaged into a European price never exceeds
\* the configured path count N and is at least N - 1, for every thread count
\* and for both antithetic settings.
C29_PayoffCount ==
    EuropeanPriced =>
        /\ PayoffsAveraged <= ctx.num_simulations
        /\ PayoffsAveraged >= ctx.num_simulations - 1

\* Three workers and three simulations with antithetic variates: every unit
\* holds one simulation and every worker adds a whole pair.
C29_Witness ==
    /\ EuropeanPriced
    /\ ctx.antithetic_enabled # 0
    /\ ctx.num_threads = 3
    /\ ctx.num_simulations = 3
    /\ PayoffsAveraged = 6
    /\ ret.paths = 6

(***************************************************************************)
(* The Sobol generator at the end of its counter.  count is a uint32_t     *)
(* (sobol.h:49) and rightmost_zero returns 32 for the count 2^32 - 1, the  *)
(* only count with no zero bit, so that the calls of next and skip made at *)
(* that count read v[d][32], one element beyond the row v[d] of            *)
(* MCO_SOBOL_BITS elements.  What such a read yields is not defined: the   *)
(* call faults, or it reads some word.  A skip of some 2^32 points is not  *)
(* run pass by pass: from a state on the sequence it ends on the point of  *)
(* the new count, which is the xor of the direction numbers v[d][k] over   *)
(* the bits k of the Gray code count ^ (count >> 1).                       *)
(***************************************************************************)
LastCount == Mask32(AllOnes)

\* The words a read beyond a row of v is taken to yield.
BeyondWords == {Zero64, Small(1), LastCount}

RECURSIVE GrayPoint(_, _, _, _)
GrayPoint(s, d, n, k) ==
    IF k = MCO_SOBOL_BITS THEN Zero64
    ELSE LET rest_of == GrayPoint(s, d, n, k + 1)
         IN IF BitOf(n, k) # BitOf(n, k + 1) THEN Xor(s.v[d][k + 1], rest_of) ELSE rest_of

\* x is the point of the sequence that belongs to count.
OnSequence(s) == \A d \in 1 .. s.dim : s.x[d] = GrayPoint(s, d, s.count, 0)

\* The column of v the pass made at count n reads.
Column(n) == rightmost_zero(n, 0)

\* One pass of mco_sobol_next or mco_sobol_skip; beyond is what the read
\* yields when the column is not one of v: a fault, or a word.
SobolPass(s, beyond) ==
    IF Column(s.count) < MCO_SOBOL_BITS
    THEN [s EXCEPT !.x = XorDirection(s), !.count = CountInc(s.count)]
    ELSE IF beyond.fault THEN [s EXCEPT !.pc = "fault"]
    ELSE [s EXCEPT !.x = [d \in 1 .. s.dim |-> Xor(s.x[d], beyond.word)],
                   !.count = CountInc(s.count)]

LoggedColumns(s, op, columns) ==
    [s EXCEPT !.ops = Append(@, [op |-> op, columns |-> columns])]

AllBeyonds ==
    {[fault |-> TRUE, word |-> Zero64]} \cup {[fault |-> FALSE, word |-> w] : w \in BeyondWords}

\* With the column in v nothing is read beyond it: one value stands for all.
Beyonds(s) ==
    IF Column(s.count) < MCO_SOBOL_BITS THEN {[fault |-> FALSE, word |-> Zero64]}
    ELSE AllBeyonds

\* mco_sobol_next at any count.
SobolNextAt(beyond) ==
    /\ sobol.pc = "ready"
    /\ Len(sobol.ops) < MaxSobolOps
    /\ beyond \in Beyonds(sobol)
    /\ LET s == SobolPass(sobol, beyond)
       IN sobol' = LoggedColumns(IF s.pc = "fault" THEN s ELSE [s EXCEPT !.point = s.x],
                                 "mco_sobol_next", {Column(sobol.count)})
    /\ UNCHANGED sobol_rest

\* mco_sobol_skip(sobol, 2) at any count.
SobolSkipTwoAt(beyond) ==
    /\ sobol.pc = "ready"
    /\ Len(sobol.ops) < MaxSobolOps
    /\ beyond \in Beyonds(sobol)
    /\ LET s == SobolPass(sobol, beyond)
       IN IF s.pc = "fault"
          THEN sobol' = LoggedColumns(s, "mco_sobol_skip", {Column(sobol.count)})
          ELSE sobol' = LoggedColumns(SobolPass(s, beyond), "mco_sobol_skip",
                                      {Column(sobol.count), Column(s.count)})
    /\ UNCHANGED sobol_rest

\* mco_sobol_skip(sobol, target - count) from one of the first counts of the
\* sequence to one of its last two: the passes made at the counts below
\* target read every column of v and none beyond.
SobolSkipTo(target) ==
    /\ sobol.pc = "ready"
    /\ Len(sobol.ops) < MaxSobolOps
    /\ Shr(sobol.count, 4) = Zero64
    /\ OnSequence(sobol)
    /\ sobol' = LoggedColumns([sobol EXCEPT !.count = target,
                                           !.x = [d \in 1 .. sobol.dim |->
                                                     GrayPoint(sobol, d, target, 0)]],
                              "mco_sobol_skip", 0 .. MCO_SOBOL_BITS - 1)
    /\ UNCHANGED sobol_rest

SobolEndStep ==
    \/ \E dim \in SobolDims : SobolInit(dim)
    \/ \E beyond \in AllBeyonds : SobolNextAt(beyond)
    \/ \E beyond \in AllBeyonds : SobolSkipTwoAt(beyond)
    \/ \E target \in {LastCount, Xor(LastCount, Small(1))} : SobolSkipTo(target)

SobolEndSpec == SobolInitState /\ [][SobolEndStep]_vars

\* C30: for every reachable value of the point counter, also after 2^32 - 1
\* or more points have been generated or skipped, the column of the
\* direction numbers that next() and skip() use lies in 0 .. 31.
C30_ColumnInRange ==
    \A i \in 1 .. Len(sobol.ops) :
        sobol.ops[i].columns \subseteq 0 .. MCO_SOBOL_BITS - 1

\* A call of next after 2^32 - 1 points have been skipped.
C30_Witness ==
    /\ sobol.pc \in {"ready", "fault"}
    /\ Len(sobol.ops) = 2
    /\ sobol.ops[1] = [op |-> "mco_sobol_skip", columns |-> 0 .. MCO_SOBOL_BITS - 1]
    /\ sobol.ops[2] = [op |-> "mco_sobol_next", columns |-> {MCO_SOBOL_BITS}]

=============================================================================
